---- MODULE Spec2Model ----
(***************************************************************************)
(* Instagram story archiver: the persistent ledger (archive_manager.py),   *)
(* the media staging area (media_manager.py) and the archive-and-post      *)
(* pipeline (story_archiver.py), as a state machine.                       *)
(*                                                                         *)
(* Conventions.  A Python optional number (None or an id / a timestamp) is *)
(* an integer with None = the value None_ (-1); tweet ids start at 1 and   *)
(* `if value` is modelled as value > 0.  An optional path is a sequence of *)
(* length 0 or 1.  A missing or None list field of a story is the empty    *)
(* sequence (the code reads both as []).  A handle is a sequence of        *)
(* one-character strings, so that strip()/lstrip('@') act on characters.   *)
(***************************************************************************)
EXTENDS Integers, Sequences, FiniteSets, TLC

VARIABLES
    now,      \* wall clock, epoch seconds
    disk,     \* content of the ledger file (ARCHIVE_DB_PATH)
    cache,    \* set of files present in MEDIA_CACHE_DIR
    tweets,   \* Post Port: sequence of the posts created so far; id = index
    data,     \* ArchiveManager.data of the running invocation
    dflt,     \* ArchiveManager.default_instagram_username
    pc,       \* position of the running invocation ("idle": no process)
    queue,    \* remaining units of the running pass
    last      \* observation of the most recent handler call

vars == <<now, disk, cache, tweets, data, dflt, pc, queue, last>>

(***************************************************************************)
(* Bounds of the model.                                                    *)
(***************************************************************************)
MaxTweets == 4
MaxDays == 1
MaxFuel == 9
MaxMedia == 9

(***************************************************************************)
(* Program constants.                                                      *)
(***************************************************************************)
BatchSize == 4
SchemaVersion == 2
None_ == 0 - 1
TzOffset == 7 * 3600
DaySeconds == 24 * 3600

Min(x, y) == IF x <= y THEN x ELSE y

(***************************************************************************)
(* Handles.                                                                *)
(***************************************************************************)
IsSpace(c) == c = " "

RECURSIVE LStripSpace(_)
LStripSpace(h) ==
    IF h # <<>> /\ IsSpace(Head(h)) THEN LStripSpace(Tail(h)) ELSE h

RECURSIVE RStripSpace(_)
RStripSpace(h) ==
    IF h # <<>> /\ IsSpace(h[Len(h)])
    THEN RStripSpace(SubSeq(h, 1, Len(h) - 1)) ELSE h

\* str.strip()
Strip(h) == RStripSpace(LStripSpace(h))

\* str.lstrip('@')
RECURSIVE LStripAt(_)
LStripAt(h) == IF h # <<>> /\ Head(h) = "@" THEN LStripAt(Tail(h)) ELSE h

\* username.strip().lstrip('@')
NormHandle(h) == LStripAt(Strip(h))

A == <<"a">>
B == <<"b">>
\* Config.INSTAGRAM_USERNAMES (already passed through strip().lstrip('@'))
INSTAGRAM_USERNAMES == <<A, B>>
INSTAGRAM_USERNAME == INSTAGRAM_USERNAMES[1]

(***************************************************************************)
(* Time: the fixed UTC+7 reference.                                        *)
(***************************************************************************)
\* datetime.now(tz).replace(hour=0, minute=0, second=0, microsecond=0), as an instant
TodayStart(t) == ((t + TzOffset) \div DaySeconds) * DaySeconds - TzOffset
\* datetime.fromtimestamp(t, tz).strftime('%Y-%m-%d'), as a day number
DateKey(t) == (t + TzOffset) \div DaySeconds
\* local midnight opening local day k
Midnight(k) == k * DaySeconds - TzOffset

(***************************************************************************)
(* Association lists (Python dicts keep insertion order).                  *)
(***************************************************************************)
Keys(al) == {al[i].k : i \in DOMAIN al}
Has(al, k) == \E i \in DOMAIN al : al[i].k = k
Get(al, k) == al[CHOOSE i \in DOMAIN al : al[i].k = k].v
Put(al, k, v) ==
    IF Has(al, k)
    THEN [i \in DOMAIN al |-> IF al[i].k = k THEN [k |-> k, v |-> v] ELSE al[i]]
    ELSE Append(al, [k |-> k, v |-> v])

SeqToSet(s) == {s[i] : i \in DOMAIN s}

(***************************************************************************)
(* Ledger documents.                                                       *)
(***************************************************************************)
_empty_account ==
    [archived_stories |-> <<>>, last_check |-> None_,
     anchor_tweet_id |-> None_, last_tweet_id |-> None_]

EmptyData == [schema_version |-> SchemaVersion, accounts |-> <<>>]

\* File contents.  tag: "missing" (no file), "garbage" (not parseable, e.g. a
\* truncated write), "other" (JSON that is neither shape), "accounts" (the
\* multi-account schema), "legacy" (single account, top-level archived_stories).
RawFile(tag, ver, accounts, legacy) ==
    [tag |-> tag, schema_version |-> ver, accounts |-> accounts, legacy |-> legacy]

MissingFile == RawFile("missing", None_, <<>>, _empty_account)
GarbageFile == RawFile("garbage", None_, <<>>, _empty_account)
OtherFile == RawFile("other", None_, <<>>, _empty_account)
LegacyFile(acct) == RawFile("legacy", None_, <<>>, acct)
\* json.dump(self.data, f)
DataFile(d) == RawFile("accounts", d.schema_version, d.accounts, _empty_account)

\* ArchiveManager._normalize_data: keys are re-normalized in dict order, a later
\* key overwriting an earlier one that normalizes to the same handle.
RECURSIVE NormalizeAccounts(_, _)
NormalizeAccounts(raw, acc) ==
    IF raw = <<>> THEN acc
    ELSE NormalizeAccounts(Tail(raw), Put(acc, NormHandle(Head(raw).k), Head(raw).v))

_normalize_data(d) ==
    [schema_version |-> SchemaVersion, accounts |-> NormalizeAccounts(d.accounts, <<>>)]

\* A schema_version that int() rejects (a word, a list, an object)
NotANumber == 0 - 2

\* _load_archive: int(raw.get('schema_version') or 2) is evaluated outside the
\* try block, so the exception it raises leaves ArchiveManager.__init__
LoadRaises(file) == file.tag = "accounts" /\ file.schema_version = NotANumber

\* Fault: the migration of a legacy file forgets the thread's last tweet
_load_archive_forgetful(file, default_username) ==
    CASE file.tag = "accounts" ->
            _normalize_data([schema_version |-> file.schema_version,
                             accounts |-> file.accounts])
      [] file.tag = "legacy" ->
            _normalize_data([schema_version |-> SchemaVersion,
                             accounts |-> <<[k |-> default_username,
                                             v |-> [archived_stories |-> file.legacy.archived_stories,
                                                    last_check |-> file.legacy.last_check,
                                                    anchor_tweet_id |-> file.legacy.anchor_tweet_id,
                                                    last_tweet_id |-> None_]]>>])
      [] OTHER -> EmptyData

\* ArchiveManager._load_archive
_load_archive(file, default_username) ==
    CASE file.tag = "accounts" ->
            _normalize_data([schema_version |-> file.schema_version,
                             accounts |-> file.accounts])
      [] file.tag = "legacy" ->
            _normalize_data([schema_version |-> SchemaVersion,
                             accounts |-> <<[k |-> default_username,
                                             v |-> [archived_stories |-> file.legacy.archived_stories,
                                                    last_check |-> file.legacy.last_check,
                                                    anchor_tweet_id |-> file.legacy.anchor_tweet_id,
                                                    last_tweet_id |-> file.legacy.last_tweet_id]]>>])
      [] OTHER -> EmptyData

\* ArchiveManager.__init__: the default handle
DefaultUsername(configured) == NormHandle(configured)

\* ArchiveManager._account_key
_account_key(username) == NormHandle(username)

\* ArchiveManager._get_account: ensures the account exists in data; an existing
\* account is replaced by a fresh deep copy (same value, new object).
_get_account(d, username) ==
    IF Has(d.accounts, _account_key(username)) THEN d
    ELSE [d EXCEPT !.accounts = Put(@, _account_key(username), _empty_account)]

Account(d, username) == Get(_get_account(d, username).accounts, _account_key(username))

\* ArchiveManager.get_archived_story_ids
get_archived_story_ids(d, username) ==
    {st.story_id : st \in SeqToSet(Account(d, username).archived_stories)}

\* ArchiveManager.get_statistics(username)['stories']
Stories(d, username) == Account(d, username).archived_stories

\* Fault: the record is written under every key of the accounts mapping
SetAccountEverywhere(d, username, acct) ==
    [d EXCEPT !.accounts =
        [i \in DOMAIN Put(@, _account_key(username), acct) |->
            [k |-> Put(@, _account_key(username), acct)[i].k, v |-> acct]]]

SetAccount(d, username, acct) ==
    [d EXCEPT !.accounts = Put(@, _account_key(username), acct)]

\* next((s for s in stories if str(s.get('story_id')) == story_id), None)
FindStory(stories, story_id) ==
    LET hits == {i \in DOMAIN stories : stories[i].story_id = story_id}
    IN  IF hits = {} THEN 0 ELSE CHOOSE i \in hits : \A j \in hits : i <= j

(***************************************************************************)
(* Stories, media descriptors and staged files.                            *)
(***************************************************************************)
\* A remote URL: the item it names, and whether its text contains "video".
Url(s, i, vid) == [s |-> s, i |-> i, vid |-> vid]

\* media_id = f"{username}_{story_id}_{idx}" (idx is 0-based in the code and in
\* the file names; sequences here are 1-based, so item idx is element idx + 1).
MediaId(username, story_id, idx) == [a |-> username, s |-> story_id, i |-> idx]

\* os.path.join(cache_dir, f"{media_id}.{ext}") / f"{media_id}_compressed.jpg"
File(mid, ext, comp) == [a |-> mid.a, s |-> mid.s, i |-> mid.i, ext |-> ext, comp |-> comp]

ExtOf(media_type) == IF media_type = "video" THEN "mp4" ELSE "jpg"

\* Images whose download exceeds max_size_mb (5 MB): compress_image re-encodes them.
BigImages == {[s |-> "s1", i |-> 0]}
IsBig(path) == [s |-> path.s, i |-> path.i] \in BigImages

Story(id, taken, urls, types, paths, tids) ==
    [story_id |-> id, taken_at |-> taken, media_count |-> Len(urls),
     media_urls |-> urls, media_types |-> types, local_media_paths |-> paths,
     local_media_path |-> IF paths = <<>> THEN <<>> ELSE <<paths[1]>>,
     tweet_ids |-> tids, orphan_media_ids |-> <<>>]

(***************************************************************************)
(* The world a handler acts on: the invocation's memory (data), the        *)
(* durable state (disk, cache), the Post Port (tweets) and the trace of    *)
(* the port calls made (dls, ups, calls, made, gone).  fuel is the number  *)
(* of durable effects the process still performs before it is killed      *)
(* (< 0: it is not killed); torn says whether a kill or an error that hits *)
(* a ledger write leaves the file truncated.  sfail is the number of       *)
(* ledger writes that still succeed before writes raise (< 0: none does);  *)
(* saved is what the last _save_archive returned and unsaved the number of *)
(* writes that raised.                                                     *)
(***************************************************************************)
World(d, f, c, t, clock, fuel, torn) ==
    [data |-> d, disk |-> f, cache |-> c, tweets |-> t, now |-> clock,
     fuel |-> fuel, torn |-> torn, dead |-> FALSE,
     sfail |-> None_, saved |-> TRUE, unsaved |-> 0,
     dls |-> <<>>, ups |-> <<>>, calls |-> <<>>, made |-> <<>>, gone |-> {}]

NoCrash == None_

Alive(w) == ~w.dead /\ w.fuel # 0
Spend(w) == [w EXCEPT !.fuel = IF @ < 0 THEN @ ELSE @ - 1]
Kill(w) == [w EXCEPT !.dead = TRUE]

\* The ledger writes of this process raise once n more have succeeded
Failing(w, n) == [w EXCEPT !.sfail = n]

\* Fault: the write is skipped and reported as done
_save_archive_skipping(w) ==
    IF w.dead THEN w ELSE [w EXCEPT !.saved = TRUE]

\* ArchiveManager._save_archive: open(db_path, 'w') truncates the file, then
\* json.dump writes the whole document.  An exception raised by open leaves the
\* file as it was, one raised while dumping leaves it truncated; both are
\* caught and False is returned.
_save_archive(w) ==
    IF w.dead THEN w
    ELSE IF w.fuel = 0
         THEN [Kill(w) EXCEPT !.disk = IF w.torn THEN GarbageFile ELSE @]
    ELSE IF w.sfail = 0
         THEN [w EXCEPT !.disk = IF w.torn THEN GarbageFile ELSE @,
                        !.saved = FALSE, !.unsaved = @ + 1]
         ELSE [Spend(w) EXCEPT !.disk = DataFile(w.data), !.saved = TRUE,
                               !.sfail = IF @ > 0 THEN @ - 1 ELSE @]

(***************************************************************************)
(* Media staging area (media_manager.py).                                  *)
(***************************************************************************)
\* MediaManager.get_cached_media_path: <<path>> or <<>> (None)
get_cached_media_path(c, mid, media_type) ==
    LET base_path == File(mid, ExtOf(media_type), FALSE)
        compressed_path == File(mid, "jpg", TRUE)
    IN  IF media_type = "image" /\ compressed_path \in c THEN <<compressed_path>>
        ELSE IF base_path \in c THEN <<base_path>>
        ELSE <<>>

\* MediaManager.download_media: the file written, when the request succeeds
DownloadPath(mid, media_type) == File(mid, ExtOf(media_type), FALSE)

download_media(w, mid, media_type, ok) ==
    IF w.dead THEN w
    ELSE IF ~ok THEN [w EXCEPT !.dls = Append(@, [id |-> mid, ok |-> FALSE])]
    ELSE IF w.fuel = 0 THEN Kill(w)
    ELSE [Spend(w) EXCEPT !.cache = @ \cup {DownloadPath(mid, media_type)},
                          !.dls = Append(@, [id |-> mid, ok |-> TRUE])]

\* MediaManager.compress_image: the path returned
CompressedPath(path) == IF IsBig(path) THEN [path EXCEPT !.comp = TRUE] ELSE path

compress_image(w, path) ==
    IF w.dead \/ ~IsBig(path) THEN w
    ELSE IF w.fuel = 0 THEN Kill(w)
    ELSE [Spend(w) EXCEPT !.cache = @ \cup {CompressedPath(path)}]

\* "_compressed.jpg" in file_path
IsCompressedName(path) == path.comp /\ path.ext = "jpg"
\* Fault: the canonical image is looked for under the extension ".jpeg"
IsOriginalJpeg(path) == path.ext = "jpeg" /\ ~path.comp

\* file_path.endswith(".jpg") and "_compressed" not in file_path
IsOriginalJpg(path) == path.ext = "jpg" /\ ~path.comp

\* MediaManager.cleanup_media: the files it removes
CleanupTargets(c, path) ==
    IF path \notin c THEN {}
    ELSE IF IsCompressedName(path)
         THEN {path} \cup ({[path EXCEPT !.comp = FALSE]} \cap c)
    ELSE IF IsOriginalJpg(path)
         THEN {path} \cup ({[path EXCEPT !.comp = TRUE]} \cap c)
    ELSE {path}

\* MediaManager.cleanup_media: its return value
CleanupResult(c, path) == path \in c

\* The sibling is removed first, then the file itself: a kill between the two
\* leaves the file without its sibling.
cleanup_media(w, path) ==
    IF w.dead \/ path \notin w.cache THEN w
    ELSE LET sib == CleanupTargets(w.cache, path) \ {path}
             w1 == IF sib = {} THEN w
                   ELSE IF w.fuel = 0 THEN Kill(w)
                   ELSE [Spend(w) EXCEPT !.cache = @ \ sib, !.gone = @ \cup sib]
         IN  IF w1.dead THEN w1
             ELSE IF w1.fuel = 0 THEN Kill(w1)
             ELSE [Spend(w1) EXCEPT !.cache = @ \ {path}, !.gone = @ \cup {path}]

(***************************************************************************)
(* Post Port (twitter_api.py), by its final outcome.                       *)
(***************************************************************************)
\* TwitterAPI.upload_media: the media handle of an uploaded file is the file
UploadMedia(w, path, ok) ==
    IF w.dead THEN w ELSE [w EXCEPT !.ups = Append(@, [path |-> path, ok |-> ok])]

\* TwitterAPI.post_tweet: a created post gets the next id
CanPost(w, ok) == ok /\ Len(w.tweets) < MaxTweets

post_tweet(w, text, media_ids, reply_to_id, username, ok) ==
    IF w.dead THEN w
    ELSE IF w.fuel = 0 THEN Kill(w)
    ELSE IF CanPost(w, ok)
         THEN [Spend(w) EXCEPT
                 !.tweets = Append(@, [text |-> text, media |-> media_ids,
                                       reply_to |-> reply_to_id, a |-> username]),
                 !.calls = Append(@, [unit |-> text.unit, reply_to |-> reply_to_id,
                                      ok |-> TRUE]),
                 !.made = Append(@, Len(w.tweets) + 1)]
         ELSE [w EXCEPT !.calls = Append(@, [unit |-> text.unit, reply_to |-> reply_to_id,
                                             ok |-> FALSE])]

\* the id returned by the post_tweet call that produced w from w0 (None_ on failure)
PostedId(w0, w) == IF Len(w.tweets) > Len(w0.tweets) THEN Len(w.tweets) ELSE None_

(***************************************************************************)
(* Ledger mutators (archive_manager.py), on the invocation's memory, each  *)
(* followed by its _save_archive.  A result is [w |-> world, ret |-> value]*)
(***************************************************************************)
Ret(w, v) == [w |-> w, ret |-> v]

\* return self._save_archive()
Saved(w) == Ret(w, w.saved)

\* Whether a dict obtained from _get_account is still the object installed in
\* self.data after `later` further _get_account calls for the account: every call
\* on an existing account installs a fresh deepcopy, detaching earlier references.
Aliased(later) == later = 0

\* The entry add_story builds from story_data.
Entry(story_id, story_data) ==
    [story_id |-> story_id, taken_at |-> story_data.taken_at,
     media_count |-> story_data.media_count, media_urls |-> story_data.media_urls,
     media_types |-> <<>>, local_media_paths |-> <<>>, local_media_path |-> <<>>,
     tweet_ids |-> story_data.tweet_ids, orphan_media_ids |-> <<>>]

\* ArchiveManager.add_story: `account` is fetched first, then
\* get_archived_story_ids calls _get_account once more before the append.
add_story(w, username, story_id, story_data) ==
    LET d1 == _get_account(w.data, username)
        account == Account(d1, username)
        ids == get_archived_story_ids(d1, username)
        appended == [account EXCEPT
                        !.archived_stories = Append(@, Entry(story_id, story_data)),
                        !.last_check = w.now]
        d2 == IF Aliased(1) THEN SetAccount(d1, username, appended) ELSE d1
    IN  IF story_id \in ids THEN Ret([w EXCEPT !.data = d1], FALSE)
        ELSE Saved(_save_archive([w EXCEPT !.data = d2]))

\* Fault: the record is removed instead of updated
SetStoryFieldDropping(acct, k, field, value) ==
    [acct EXCEPT !.archived_stories = SubSeq(@, 1, k - 1) \o SubSeq(@, k + 1, Len(@))]

\* Fault: the changed record is appended beside the one it should replace
SetStoryFieldAppending(acct, k, field, value) ==
    [acct EXCEPT !.archived_stories =
                    Append(@, [acct.archived_stories[k] EXCEPT ![field] = value])]

\* account['archived_stories'] with the first entry of that story_id changed by f
SetStoryField(acct, k, field, value) ==
    [acct EXCEPT !.archived_stories[k] = [@ EXCEPT ![field] = value]]

\* ArchiveManager.update_story_tweets
update_story_tweets(w, username, story_id, tweet_ids) ==
    LET d1 == _get_account(w.data, username)
        account == Account(d1, username)
        k == FindStory(account.archived_stories, story_id)
    IN  IF k = 0 THEN Ret([w EXCEPT !.data = d1], FALSE)
        ELSE Saved(_save_archive([w EXCEPT !.data =
                    SetAccount(d1, username, SetStoryField(account, k, "tweet_ids", tweet_ids))]))

\* ArchiveManager.get_anchor_tweet_id / get_last_tweet_id
get_anchor_tweet_id(d, username) == Account(d, username).anchor_tweet_id
\* Fault: the thread tail is never found
get_last_tweet_id_unset(d, username) == None_
get_last_tweet_id(d, username) == Account(d, username).last_tweet_id

\* ArchiveManager.set_anchor_tweet_id
set_anchor_tweet_id(w, username, tweet_id) ==
    LET d1 == _get_account(w.data, username)
    IN  _save_archive([w EXCEPT !.data =
            SetAccount(d1, username, [Account(d1, username) EXCEPT !.anchor_tweet_id = tweet_id])])

\* Fault: the id recorded as the thread's tail is one past the post created
set_last_tweet_id_ahead(w, username, tweet_id) ==
    LET d1 == _get_account(w.data, username)
    IN  _save_archive([w EXCEPT !.data =
            SetAccount(d1, username, [Account(d1, username) EXCEPT !.last_tweet_id = tweet_id + 1])])

\* ArchiveManager.set_last_tweet_id
set_last_tweet_id(w, username, tweet_id) ==
    LET d1 == _get_account(w.data, username)
    IN  _save_archive([w EXCEPT !.data =
            SetAccount(d1, username, [Account(d1, username) EXCEPT !.last_tweet_id = tweet_id])])

\* ArchiveManager.set_last_check (called by the pipeline, defined outside src/)
set_last_check(w, username) ==
    LET d1 == _get_account(w.data, username)
    IN  _save_archive([w EXCEPT !.data =
            SetAccount(d1, username, [Account(d1, username) EXCEPT !.last_check = w.now])])

\* ArchiveManager.update_story_local_paths (defined outside src/)
update_story_local_paths(w, username, story_id, paths) ==
    LET d1 == _get_account(w.data, username)
        account == Account(d1, username)
        k == FindStory(account.archived_stories, story_id)
        acct1 == SetStoryField(account, k, "local_media_paths", paths)
        acct2 == SetStoryField(acct1, k, "local_media_path",
                               IF paths = <<>> THEN <<>> ELSE <<paths[1]>>)
    IN  IF k = 0 THEN [w EXCEPT !.data = d1]
        ELSE _save_archive([w EXCEPT !.data = SetAccount(d1, username, acct2)])

\* ArchiveManager.add_orphan_media_ids (defined outside src/): the handles of the
\* failed batch are recorded on the story; a handle is recorded once.
add_orphan_media_ids(w, username, story_id, media_ids) ==
    LET d1 == _get_account(w.data, username)
        account == Account(d1, username)
        k == FindStory(account.archived_stories, story_id)
        recorded == account.archived_stories[k].orphan_media_ids
        fresh == SelectSeq(media_ids, LAMBDA m : m \notin SeqToSet(recorded))
    IN  IF k = 0 THEN [w EXCEPT !.data = d1]
        ELSE _save_archive([w EXCEPT !.data = SetAccount(d1, username,
                SetStoryField(account, k, "orphan_media_ids", recorded \o fresh))])

(***************************************************************************)
(* Pipeline engine (story_archiver.py).  The outcome of the k-th Post Port *)
(* call of a handler is an input: up[k] for upload_media, tw[k] for        *)
(* post_tweet, dl[i] for the download of item i.                           *)
(***************************************************************************)
AnchorText == [kind |-> "anchor", part |-> 0, of |-> 0, unit |-> {}]
\* caption, with "(idx+1/N)" appended when there are several batches
StoryText(unit, idx, n) ==
    [kind |-> "story", part |-> IF n > 1 THEN idx ELSE 0, of |-> IF n > 1 THEN n ELSE 0,
     unit |-> unit]

\* StoryArchiver._ensure_anchor_tweet: ret is the anchor id or None_
_ensure_anchor_tweet(w, instagram_username, tw) ==
    LET username == NormHandle(instagram_username)
        w0 == [w EXCEPT !.data = _get_account(@, username)]
        anchor_id == get_anchor_tweet_id(w0.data, username)
        w1 == post_tweet(w0, AnchorText, <<>>, None_, username, tw[Len(w0.calls) + 1])
        new_id == PostedId(w0, w1)
    IN  IF anchor_id > 0 THEN Ret(w0, anchor_id)
        ELSE IF new_id = None_ THEN Ret(w1, None_)
        ELSE Ret(set_last_tweet_id(set_anchor_tweet_id(w1, username, new_id), username, new_id),
                 new_id)

\* Fault: the number of batches is computed as len // 4 + 1
BatchesRoundedUp(media_paths) ==
    [b \in 1..(Len(media_paths) \div BatchSize + 1) |->
        SubSeq(media_paths, (b - 1) * BatchSize + 1, Min(b * BatchSize, Len(media_paths)))]

\* media_batches = [media_paths[i:i + 4] for i in range(0, len(media_paths), 4)]
Batches(media_paths) ==
    [b \in 1..((Len(media_paths) + BatchSize - 1) \div BatchSize) |->
        SubSeq(media_paths, (b - 1) * BatchSize + 1, Min(b * BatchSize, Len(media_paths)))]

\* for path in batch_paths: media_id = upload_media(path); if media_id: append
RECURSIVE UploadBatch(_, _, _, _)
UploadBatch(w, batch_paths, up, media_ids) ==
    IF w.dead \/ batch_paths = <<>> THEN Ret(w, media_ids)
    ELSE UploadBatch(UploadMedia(w, Head(batch_paths), up[Len(w.ups) + 1]),
                     Tail(batch_paths), up,
                     IF up[Len(w.ups) + 1] THEN Append(media_ids, Head(batch_paths))
                     ELSE media_ids)

\* Fault: a batch whose post_tweet failed is passed over and the loop goes on
RECURSIVE PostBatchesContinuing(_, _, _, _, _, _, _, _, _, _)
PostBatchesContinuing(w, username, unit, orphan, media_batches, idx, tweet_ids, last_tweet_id, up, tw) ==
    IF w.dead \/ idx > Len(media_batches) THEN Ret(w, tweet_ids)
    ELSE LET u == UploadBatch(w, media_batches[idx], up, <<>>)
             w1 == post_tweet(u.w, StoryText(unit, idx, Len(media_batches)), u.ret,
                              last_tweet_id, username, tw[Len(u.w.calls) + 1])
             tweet_id == PostedId(u.w, w1)
         IN  IF u.ret = <<>>
             THEN PostBatchesContinuing(u.w, username, unit, orphan, media_batches, idx + 1,
                                        tweet_ids, last_tweet_id, up, tw)
             ELSE IF tweet_id = None_
             THEN PostBatchesContinuing(w1, username, unit, orphan, media_batches, idx + 1,
                                        tweet_ids, last_tweet_id, up, tw)
             ELSE PostBatchesContinuing(w1, username, unit, orphan, media_batches, idx + 1,
                                        Append(tweet_ids, tweet_id), tweet_id, up, tw)

\* The loop over media_batches of post_story (orphan = the story id) and of
\* post_pending_stories_daily (orphan = ""): ret is [tweet_ids, last_tweet_id].
RECURSIVE PostBatches(_, _, _, _, _, _, _, _, _, _)
PostBatches(w, username, unit, orphan, media_batches, idx, tweet_ids, last_tweet_id, up, tw) ==
    IF w.dead \/ idx > Len(media_batches) THEN Ret(w, tweet_ids)
    ELSE LET u == UploadBatch(w, media_batches[idx], up, <<>>)
             w1 == post_tweet(u.w, StoryText(unit, idx, Len(media_batches)), u.ret,
                              last_tweet_id, username, tw[Len(u.w.calls) + 1])
             tweet_id == PostedId(u.w, w1)
         IN  IF u.ret = <<>>
             THEN PostBatches(u.w, username, unit, orphan, media_batches, idx + 1,
                              tweet_ids, last_tweet_id, up, tw)
             ELSE IF tweet_id = None_
             THEN Ret(IF orphan = "" THEN w1
                      ELSE add_orphan_media_ids(w1, username, orphan, u.ret), tweet_ids)
             ELSE PostBatches(w1, username, unit, orphan, media_batches, idx + 1,
                              Append(tweet_ids, tweet_id), tweet_id, up, tw)

\* Fault: the staged files are left in place after posting
CleanupNone(w, media_paths) == w

\* for media_path in media_paths: if os.path.exists(media_path): cleanup_media
RECURSIVE CleanupAll(_, _)
CleanupAll(w, media_paths) ==
    IF w.dead \/ media_paths = <<>> THEN w
    ELSE CleanupAll(cleanup_media(w, Head(media_paths)), Tail(media_paths))

\* The type used for item idx (1-based here) of a stored story.
ItemType(stored_media_types, idx, url) ==
    IF idx <= Len(stored_media_types) THEN stored_media_types[idx]
    ELSE IF url.vid THEN "video" ELSE "image"

\* The loop `for idx, url in enumerate(media_urls)` of post_story and of
\* post_pending_stories_daily: ret is [paths, types] of the prepared items.
RECURSIVE PrepareMedia(_, _, _, _, _, _, _, _)
PrepareMedia(w, username, story_id, entry, stored_media_paths, idx, dl, acc) ==
    IF w.dead \/ idx > Len(entry.media_urls) THEN Ret(w, acc)
    ELSE LET url == entry.media_urls[idx]
             media_type == ItemType(entry.media_types, idx, url)
             existing == IF idx <= Len(stored_media_paths)
                            /\ stored_media_paths[idx] \in w.cache
                         THEN <<stored_media_paths[idx]>> ELSE <<>>
             media_id == MediaId(username, story_id, idx - 1)
             cached == get_cached_media_path(w.cache, media_id, media_type)
             w1 == IF existing # <<>> \/ cached # <<>> THEN w
                   ELSE download_media(w, media_id, media_type, dl[idx])
             media_path == IF existing # <<>> THEN existing
                           ELSE IF cached # <<>> THEN cached
                           ELSE IF dl[idx] THEN <<DownloadPath(media_id, media_type)>>
                           ELSE <<>>
             compress == media_path # <<>> /\ media_type = "image"
                            /\ ~IsCompressedName(media_path[1])
             w2 == IF compress THEN compress_image(w1, media_path[1]) ELSE w1
             final == IF compress THEN CompressedPath(media_path[1]) ELSE media_path[1]
         IN  IF media_path = <<>>
             THEN PrepareMedia(w1, username, story_id, entry, stored_media_paths, idx + 1, dl, acc)
             ELSE PrepareMedia(w2, username, story_id, entry, stored_media_paths, idx + 1, dl,
                               [paths |-> Append(acc.paths, final),
                                types |-> Append(acc.types, media_type)])

\* stored_media_paths after the legacy single-media fallback
StoredPaths(entry) ==
    IF entry.local_media_paths # <<>> THEN entry.local_media_paths ELSE entry.local_media_path

\* post_story, `if not tweet_ids` to the end: the ledger update, the eviction of
\* the staged files and the clearing of the recorded paths
PostStoryRecord(posted, username, story_id, media_paths) ==
    IF posted.ret = <<>> THEN Ret(posted.w, FALSE)
    ELSE Ret(update_story_local_paths(
                 CleanupAll(
                     set_last_tweet_id(
                         update_story_tweets(posted.w, username, story_id, posted.ret).w,
                         username, posted.ret[Len(posted.ret)]),
                     media_paths),
                 username, story_id, <<>>),
             TRUE)

\* post_story, from the anchor check to the loop over media_batches
PostStoryThread(anchor, username, story_entry, media_paths, up, tw) ==
    IF anchor.ret = None_ THEN Ret(anchor.w, FALSE)
    \* get_story_caption(username, None) raises; the handler's except returns False
    ELSE IF story_entry.taken_at = None_ THEN Ret(anchor.w, FALSE)
    ELSE PostStoryRecord(
             PostBatches(anchor.w, username, {story_entry.story_id}, story_entry.story_id,
                         Batches(media_paths), 1, <<>>,
                         IF get_last_tweet_id(anchor.w.data, username) > 0
                         THEN get_last_tweet_id(anchor.w.data, username) ELSE anchor.ret,
                         up, tw),
             username, story_entry.story_id, media_paths)

\* Fault: a story is posted with whatever part of its media could be prepared
PostStoryMediaPartial(prep, username, story_entry, up, tw) ==
    LET media_urls == story_entry.media_urls
        media_paths == prep.ret.paths
    IN  IF media_paths = <<>> THEN Ret(prep.w, FALSE)
        ELSE PostStoryThread(
                 _ensure_anchor_tweet(
                     IF media_urls # <<>>
                     THEN update_story_local_paths(prep.w, username, story_entry.story_id,
                                                   media_paths)
                     ELSE prep.w,
                     username, tw),
                 username, story_entry, media_paths, up, tw)

\* post_story, from the checks on the prepared media to _ensure_anchor_tweet
PostStoryMedia(prep, username, story_entry, up, tw) ==
    LET media_urls == story_entry.media_urls
        media_paths == prep.ret.paths
    IN  IF media_paths = <<>> THEN Ret(prep.w, FALSE)
        ELSE IF media_urls # <<>> /\ Len(media_urls) > 1 /\ Len(media_paths) # Len(media_urls)
             THEN Ret(prep.w, FALSE)
        ELSE PostStoryThread(
                 _ensure_anchor_tweet(
                     IF media_urls # <<>>
                     THEN update_story_local_paths(prep.w, username, story_entry.story_id,
                                                   media_paths)
                     ELSE prep.w,
                     username, tw),
                 username, story_entry, media_paths, up, tw)

\* StoryArchiver.post_story: ret is the boolean returned
post_story(w, username0, story_id, dl, up, tw) ==
    LET username == NormHandle(username0)
        w0 == [w EXCEPT !.data = _get_account(@, username)]
        stories == Stories(w0.data, username)
        k == FindStory(stories, story_id)
        story_entry == stories[k]
        stored_media_paths == StoredPaths(story_entry)
    IN  IF k = 0 THEN Ret(w0, FALSE)
        ELSE IF story_entry.tweet_ids # <<>> THEN Ret(w0, TRUE)
        ELSE PostStoryMedia(
                 IF story_entry.media_urls # <<>>
                 THEN PrepareMedia(w0, username, story_id, story_entry, stored_media_paths,
                                   1, dl, [paths |-> <<>>, types |-> <<>>])
                 ELSE Ret(w0, [paths |-> SelectSeq(stored_media_paths,
                                                   LAMBDA q : q \in w0.cache),
                               types |-> story_entry.media_types]),
                 username, story_entry, up, tw)

\* A fetched story payload, by what the pipeline reads of it: pk (or id; "" when
\* the payload has neither), taken_at, and the media descriptors that
\* InstagramAPI.extract_media_urls returns for it (items without a url dropped).
Payload(pk, taken, media) == [pk |-> pk, taken_at |-> taken, media |-> media]
Media(url, type) == [url |-> url, type |-> type]

\* int(item.get('taken_at') or 0)
TimeKey(x) == IF x.taken_at = None_ THEN 0 ELSE x.taken_at

\* list.sort(key=...) is stable: an element goes after those with a key <= its own
InsertByTime(sorted, x) ==
    LET n == Cardinality({i \in DOMAIN sorted : TimeKey(sorted[i]) <= TimeKey(x)})
    IN  SubSeq(sorted, 1, n) \o <<x>> \o SubSeq(sorted, n + 1, Len(sorted))

RECURSIVE SortByTime(_)
SortByTime(s) ==
    IF s = <<>> THEN <<>>
    ELSE InsertByTime(SortByTime(SubSeq(s, 1, Len(s) - 1)), s[Len(s)])

\* The download loop of archive_story: ret is [paths, types] of the items prepared.
RECURSIVE StageMedia(_, _, _, _, _, _, _)
StageMedia(w, username, story_id, media_list, idx, dl, acc) ==
    IF w.dead \/ idx > Len(media_list) THEN Ret(w, acc)
    ELSE LET media_type == media_list[idx].type
             media_id == MediaId(username, story_id, idx - 1)
             cached == get_cached_media_path(w.cache, media_id, media_type)
             w1 == IF cached # <<>> THEN w
                   ELSE download_media(w, media_id, media_type, dl[idx])
             media_path == IF cached # <<>> THEN cached
                           ELSE IF dl[idx] THEN <<DownloadPath(media_id, media_type)>>
                           ELSE <<>>
             compress == media_path # <<>> /\ media_type = "image"
                            /\ ~IsCompressedName(media_path[1])
             w2 == IF compress THEN compress_image(w1, media_path[1]) ELSE w1
             final == IF compress THEN CompressedPath(media_path[1]) ELSE media_path[1]
         IN  IF media_path = <<>>
             THEN StageMedia(w1, username, story_id, media_list, idx + 1, dl, acc)
             ELSE StageMedia(w2, username, story_id, media_list, idx + 1, dl,
                             [paths |-> Append(acc.paths, final),
                              types |-> Append(acc.types, media_type)])

\* The archive_data dict handed to add_story
ArchiveData(media_count, media_urls, taken_at, local_media_paths, media_types) ==
    [media_count |-> media_count, media_urls |-> media_urls, tweet_ids |-> <<>>,
     taken_at |-> taken_at, local_media_paths |-> local_media_paths,
     media_types |-> media_types]

\* Fault: a story without media is archived all the same
archive_story_empty(w, username0, story_id, story_payload, dl) ==
    LET username == NormHandle(username0)
        w0 == [w EXCEPT !.data = _get_account(@, username)]
        archived_ids == get_archived_story_ids(w0.data, username)
        taken_at == TimeKey(story_payload)
        media_list == story_payload.media
        staged == StageMedia(w0, username, story_id, media_list, 1, dl,
                             [paths |-> <<>>, types |-> <<>>])
        archive_data == ArchiveData(Len(media_list),
                                    [i \in DOMAIN media_list |-> media_list[i].url],
                                    taken_at, staged.ret.paths, staged.ret.types)
    IN  IF story_id \in archived_ids THEN Ret(w0, FALSE)
        ELSE Ret(add_story(staged.w, username, story_id, archive_data).w, TRUE)

\* StoryArchiver.archive_story with story_payload given: ret is the boolean returned
archive_story(w, username0, story_id, story_payload, dl) ==
    LET username == NormHandle(username0)
        w0 == [w EXCEPT !.data = _get_account(@, username)]
        archived_ids == get_archived_story_ids(w0.data, username)
        taken_at == TimeKey(story_payload)
        media_list == story_payload.media
        staged == StageMedia(w0, username, story_id, media_list, 1, dl,
                             [paths |-> <<>>, types |-> <<>>])
        archive_data == ArchiveData(Len(media_list),
                                    [i \in DOMAIN media_list |-> media_list[i].url],
                                    taken_at, staged.ret.paths, staged.ret.types)
    IN  IF story_id \in archived_ids THEN Ret(w0, FALSE)
        ELSE IF media_list = <<>> THEN Ret(w0, FALSE)
        ELSE Ret(add_story(staged.w, username, story_id, archive_data).w, TRUE)

\* filename.startswith(f"{username}_") for a file named f"{f.a}_{f.s}_{f.i}..."
BelongsTo(f, username) ==
    LET name == f.a \o <<"_">>
        prefix == username \o <<"_">>
    IN  Len(prefix) <= Len(name) /\ SubSeq(name, 1, Len(prefix)) = prefix

\* os.listdir(cache_dir), in one fixed order
RECURSIVE ListDir(_)
ListDir(c) ==
    IF c = {} THEN <<>>
    ELSE LET f == CHOOSE x \in c : TRUE IN <<f>> \o ListDir(c \ {f})

\* Fault: the sweep leaves the files of posted stories where they are
SweepNothing(w, username, filenames, posted_ids) == w

\* First loop of _sync_cache_only_stories: files of posted stories are removed
RECURSIVE SweepPosted(_, _, _, _)
SweepPosted(w, username, filenames, posted_ids) ==
    IF w.dead \/ filenames = <<>> THEN w
    ELSE LET f == Head(filenames)
         IN  SweepPosted(IF BelongsTo(f, username) /\ f.s \in posted_ids
                         THEN cleanup_media(w, f) ELSE w,
                         username, Tail(filenames), posted_ids)

\* sorted(by_idx.keys())
SortedIdx(idxs) ==
    [k \in 1..Cardinality(idxs) |->
        CHOOSE i \in idxs : Cardinality({j \in idxs : j < i}) = k - 1]

TypeOfExt(ext) == IF ext = "mp4" THEN "video" ELSE "image"

\* Second loop: one add_story per story id found only in the cache; ret is `added`.
\* grouped is the set of files that reached grouped[story_id][idx] = media_type.
RECURSIVE Backfill(_, _, _, _, _, _)
Backfill(w, username, grouped, ids, mtime, added) ==
    IF w.dead \/ ids = <<>> THEN Ret(w, added)
    ELSE LET story_id == Head(ids)
             by_idx == {f \in grouped : f.s = story_id}
             indices == SortedIdx({f.i : f \in by_idx})
             type_of(idx) == TypeOfExt((CHOOSE f \in by_idx : f.i = idx).ext)
             \* the path is looked up again under f"{username}_{story_id}_{idx}"
             path_of(idx) == get_cached_media_path(w.cache, MediaId(username, story_id, idx),
                                                   type_of(idx))
             kept == SelectSeq(indices, LAMBDA idx : path_of(idx) # <<>>)
             local_media_paths == [k \in DOMAIN kept |-> path_of(kept[k])[1]]
             media_types == [k \in DOMAIN kept |-> type_of(kept[k])]
             r == add_story(w, username, story_id,
                            ArchiveData(Len(local_media_paths), <<>>, mtime,
                                        local_media_paths, media_types))
         IN  IF kept = <<>> THEN Backfill(w, username, grouped, Tail(ids), mtime, added)
             ELSE Backfill(r.w, username, grouped, Tail(ids), mtime,
                           IF r.ret THEN added + 1 ELSE added)

\* StoryArchiver._sync_cache_only_stories: ret is the number of stories backfilled.
\* mtime stands for min(os.path.getmtime(p)) of the files found.
_sync_cache_only_stories(w, username0, ignore_story_ids, mtime) ==
    LET username == NormHandle(username0)
        filenames == ListDir(w.cache)
        w0 == [w EXCEPT !.data = _get_account(@, username)]
        archived_ids == get_archived_story_ids(w0.data, username)
        posted_ids == {st.story_id : st \in
                         {x \in SeqToSet(Stories(w0.data, username)) : x.tweet_ids # <<>>}}
        grouped == {f \in w.cache : /\ BelongsTo(f, username)
                                    /\ f.s \notin posted_ids
                                    /\ f.s \notin archived_ids
                                    /\ f.s \notin ignore_story_ids}
        w1 == SweepPosted(w0, username, filenames, posted_ids)
        ids == ListDir({f.s : f \in grouped})
    IN  IF w1.dead THEN Ret(w1, 0) ELSE Backfill(w1, username, grouped, ids, mtime, 0)

\* The loop over story_items of archive_all_stories_for_user: ret is
\* [count, tried] with tried the story ids handed to archive_story, in order.
RECURSIVE ArchiveLoop(_, _, _, _, _, _)
ArchiveLoop(w, username, story_items, archived_ids, dl, acc) ==
    IF w.dead \/ story_items = <<>> THEN Ret(w, acc)
    ELSE LET story == Head(story_items)
             r == archive_story(w, username, story.pk, story, dl[story.pk])
         IN  IF story.pk = "" \/ story.pk \in archived_ids
             THEN ArchiveLoop(w, username, Tail(story_items), archived_ids, dl, acc)
             ELSE ArchiveLoop(r.w, username, Tail(story_items),
                              IF r.ret THEN archived_ids \cup {story.pk} ELSE archived_ids,
                              dl,
                              [count |-> IF r.ret THEN acc.count + 1 ELSE acc.count,
                               tried |-> Append(acc.tried, story.pk)])

\* What get_user_stories returns: None (err) or a list of payloads (items)
Fetched(items) == [err |-> FALSE, items |-> items]
FetchError == [err |-> TRUE, items |-> <<>>]

\* Fault: the reconciliation sweep runs although the fetch failed
archive_all_stories_for_user_sweeping(w, username0, stories, dl, mtime) ==
    LET username == NormHandle(username0)
        w0 == set_last_check(w, username)
        story_items == SortByTime(stories.items)
        story_ids_in_api == {story_items[i].pk : i \in DOMAIN story_items} \ {""}
        archived_ids == get_archived_story_ids(w0.data, username)
        looped == ArchiveLoop(w0, username, story_items, archived_ids, dl,
                              [count |-> 0, tried |-> <<>>])
        synced == _sync_cache_only_stories(looped.w, username, story_ids_in_api, mtime)
    IN  IF w0.dead THEN Ret(w0, [count |-> 0, tried |-> <<>>])
        ELSE IF looped.w.dead THEN looped
        ELSE Ret(synced.w, [count |-> looped.ret.count + synced.ret,
                            tried |-> looped.ret.tried])

\* StoryArchiver.archive_all_stories_for_user: ret is [count, tried]
archive_all_stories_for_user(w, username0, stories, dl, mtime) ==
    LET username == NormHandle(username0)
        w0 == set_last_check(w, username)
        story_items == SortByTime(stories.items)
        story_ids_in_api == {story_items[i].pk : i \in DOMAIN story_items} \ {""}
        archived_ids == get_archived_story_ids(w0.data, username)
        looped == ArchiveLoop(w0, username, story_items, archived_ids, dl,
                              [count |-> 0, tried |-> <<>>])
        synced == _sync_cache_only_stories(looped.w, username, story_ids_in_api, mtime)
    IN  IF w0.dead \/ stories.err THEN Ret(w0, [count |-> 0, tried |-> <<>>])
        ELSE IF looped.w.dead THEN looped
        ELSE Ret(synced.w, [count |-> looped.ret.count + synced.ret,
                            tried |-> looped.ret.tried])

\* Fault: posted stories count as pending, too
PendingAlways(story) == TRUE

\* The eligibility test of post_pending_stories and post_pending_stories_daily
Pending(story) == story.tweet_ids = <<>>
\* Fault: a story taken at 00:00:00 today is taken for one of yesterday
EligibleInclusive(story, today_start) ==
    Pending(story) /\ story.taken_at # None_ /\ story.taken_at <= today_start

Eligible(story, today_start) ==
    Pending(story) /\ story.taken_at # None_ /\ story.taken_at < today_start

\* stories_to_post of post_pending_stories, sorted by taken_at
StoriesToPost(d, username0, clock) ==
    LET username == NormHandle(username0)
        stories == Stories(d, username)
    IN  SortByTime(SelectSeq(stories, LAMBDA st : Eligible(st, TodayStart(clock))))

\* Fault: the days are taken latest first
RECURSIVE GroupByDateDescending(_, _)
GroupByDateDescending(stories_to_post, keys) ==
    IF keys = {} THEN <<>>
    ELSE LET date_key == CHOOSE x \in keys : \A y \in keys : x >= y
         IN  <<SortByTime(SelectSeq(stories_to_post,
                                    LAMBDA st : DateKey(st.taken_at) = date_key))>>
             \o GroupByDateDescending(stories_to_post, keys \ {date_key})

\* sorted(stories_by_date.items()), each day's stories sorted by taken_at
RECURSIVE GroupByDate(_, _)
GroupByDate(stories_to_post, keys) ==
    IF keys = {} THEN <<>>
    ELSE LET date_key == CHOOSE x \in keys : \A y \in keys : x <= y
         IN  <<SortByTime(SelectSeq(stories_to_post,
                                    LAMBDA st : DateKey(st.taken_at) = date_key))>>
             \o GroupByDate(stories_to_post, keys \ {date_key})

DayGroups(d, username0, clock) ==
    LET username == NormHandle(username0)
        stories_to_post == SelectSeq(Stories(d, username),
                                     LAMBDA st : Eligible(st, TodayStart(clock)))
    IN  GroupByDate(stories_to_post,
                    {DateKey(stories_to_post[i].taken_at) : i \in DOMAIN stories_to_post})

\* The loop `for story in day_stories` of post_pending_stories_daily: ret is
\* all_media_paths.  The stories are the dicts read when the pass began.
RECURSIVE CollectDay(_, _, _, _, _)
CollectDay(w, username, day_stories, dl, all_media_paths) ==
    IF w.dead \/ day_stories = <<>> THEN Ret(w, all_media_paths)
    ELSE LET story == Head(day_stories)
             stored_media_paths == StoredPaths(story)
             prep == IF story.media_urls # <<>>
                     THEN PrepareMedia(w, username, story.story_id, story, stored_media_paths,
                                       1, dl[story.story_id], [paths |-> <<>>, types |-> <<>>])
                     ELSE Ret(w, [paths |-> SelectSeq(stored_media_paths,
                                                      LAMBDA q : q \in w.cache),
                                  types |-> story.media_types])
         IN  CollectDay(prep.w, username, Tail(day_stories), dl,
                        all_media_paths \o prep.ret.paths)

RECURSIVE MarkPosted(_, _, _, _)
MarkPosted(w, username, all_story_ids, tweet_ids) ==
    IF w.dead \/ all_story_ids = <<>> THEN w
    ELSE MarkPosted(update_story_tweets(w, username, Head(all_story_ids), tweet_ids).w,
                    username, Tail(all_story_ids), tweet_ids)

RECURSIVE ClearPaths(_, _, _)
ClearPaths(w, username, all_story_ids) ==
    IF w.dead \/ all_story_ids = <<>> THEN w
    ELSE ClearPaths(update_story_local_paths(w, username, Head(all_story_ids), <<>>),
                    username, Tail(all_story_ids))

\* post_pending_stories_daily, `if not tweet_ids` to the end of the iteration
PostDayRecord(posted, username, all_story_ids, all_media_paths) ==
    IF posted.ret = <<>> THEN Ret(posted.w, 0)
    ELSE Ret(ClearPaths(
                 CleanupAll(
                     set_last_tweet_id(
                         MarkPosted(posted.w, username, all_story_ids, posted.ret),
                         username, posted.ret[Len(posted.ret)]),
                     all_media_paths),
                 username, all_story_ids),
             Len(all_story_ids))

\* post_pending_stories_daily, from `if not all_media_paths` to the loop over batches
PostDayThread(collected, anchor_id, username, all_story_ids, up, tw) ==
    IF collected.ret = <<>> THEN Ret(collected.w, 0)
    ELSE PostDayRecord(
             PostBatches(collected.w, username, SeqToSet(all_story_ids), "",
                         Batches(collected.ret), 1, <<>>,
                         IF get_last_tweet_id(collected.w.data, username) > 0
                         THEN get_last_tweet_id(collected.w.data, username) ELSE anchor_id,
                         up, tw),
             username, all_story_ids, collected.ret)

\* post_pending_stories_daily, from the anchor check to the loop over day_stories
PostDayMedia(anchor, username, day_stories, dl, up, tw) ==
    IF anchor.ret = None_ THEN Ret(anchor.w, 0)
    ELSE PostDayThread(CollectDay(anchor.w, username, day_stories, dl, <<>>), anchor.ret,
                       username, [i \in DOMAIN day_stories |-> day_stories[i].story_id],
                       up, tw)

\* One iteration of `for date_key, day_stories in sorted(...)` of
\* post_pending_stories_daily: ret is the number of stories marked posted.
post_day(w, username0, day_stories, dl, up, tw) ==
    PostDayMedia(_ensure_anchor_tweet(w, NormHandle(username0), tw), NormHandle(username0),
                 day_stories, dl, up, tw)

(***************************************************************************)
(* Environment: the ledger files, staged media and thread the program may  *)
(* find when it starts, and what the Instagram feed may return.            *)
(***************************************************************************)
\* 01:00 local time (UTC+7) on local day 2
Now0 == Midnight(2) + 3600

Img(username, story_id, idx) == File(MediaId(username, story_id, idx), "jpg", FALSE)
Vid(username, story_id, idx) == File(MediaId(username, story_id, idx), "mp4", FALSE)

Acct(stories, anchor, last_id) ==
    [archived_stories |-> stories, last_check |-> None_,
     anchor_tweet_id |-> anchor, last_tweet_id |-> last_id]

Ledger(accounts) == DataFile([schema_version |-> SchemaVersion, accounts |-> accounts])

\* s1 was taken at 23:59:59 of local day 1 and has two items, s2 at 00:00:00 of
\* local day 2
BoundaryStories ==
    <<Story("s1", Midnight(2) - 1, <<Url("s1", 0, FALSE), Url("s1", 1, TRUE)>>,
            <<"image", "video">>, <<Img(A, "s1", 0), Vid(A, "s1", 1)>>, <<>>),
      Story("s2", Midnight(2), <<Url("s2", 0, FALSE)>>, <<"image">>,
            <<Img(A, "s2", 0)>>, <<>>)>>

\* recorded in the order fetched, taken at 300 and at 100
OrderStories ==
    <<Story("o1", 300, <<Url("o1", 0, FALSE)>>, <<"image">>, <<>>, <<>>),
      Story("o2", 100, <<Url("o2", 0, TRUE)>>, <<>>, <<>>, <<>>)>>

\* p1 was posted as tweet 2 under anchor 1; b1 of the second account is pending
PostedStories ==
    <<Story("p1", Midnight(1), <<Url("p1", 0, FALSE)>>, <<"image">>, <<>>, <<2>>)>>
PostedThread ==
    <<[text |-> AnchorText, media |-> <<>>, reply_to |-> None_, a |-> A],
      [text |-> StoryText({"p1"}, 1, 1), media |-> <<Img(A, "p1", 0)>>, reply_to |-> 1, a |-> A]>>
SecondStories ==
    <<Story("b1", Midnight(2) - 3600, <<Url("b1", 0, TRUE)>>, <<"video">>,
            <<Vid(B, "b1", 0)>>, <<>>)>>

\* a very old single-account file: no media_urls, one legacy local_media_path
LegacyStories ==
    <<[Story("l1", Midnight(1) + 60, <<>>, <<>>, <<>>, <<>>)
          EXCEPT !.media_count = 1, !.local_media_path = <<Img(A, "l1", 0)>>]>>

Scenario(file, staged, thread) == [disk |-> file, cache |-> staged, tweets |-> thread]

\* the staged video of s1 has been lost
BoundaryScenario ==
    Scenario(Ledger(<<[k |-> A, v |-> Acct(BoundaryStories, None_, None_)]>>),
             {Img(A, "s1", 0), Img(A, "s2", 0)}, <<>>)
OrderScenario ==
    Scenario(Ledger(<<[k |-> A, v |-> Acct(OrderStories, None_, None_)]>>), {}, <<>>)
PostedScenario ==
    Scenario(Ledger(<<[k |-> A, v |-> Acct(PostedStories, 1, 2)],
                      [k |-> B, v |-> Acct(SecondStories, None_, None_)]>>),
             {Img(A, "p1", 0), Vid(B, "b1", 0)}, PostedThread)
LegacyScenario ==
    Scenario(LegacyFile(Acct(LegacyStories, None_, None_)), {Img(A, "l1", 0)}, <<>>)
EmptyScenario == Scenario(MissingFile, {}, <<>>)

Scenarios ==
    {EmptyScenario, BoundaryScenario, OrderScenario, PostedScenario, LegacyScenario}

\* What get_user_stories may return for an account
Feeds(username) ==
    IF username = A
    THEN {FetchError, Fetched(<<>>),
          Fetched(<<Payload("n3", 300, <<Media(Url("n3", 0, FALSE), "image")>>),
                    Payload("n1", 100, <<Media(Url("n1", 0, FALSE), "image")>>),
                    Payload("n2", 200, <<Media(Url("n2", 0, TRUE), "video")>>)>>),
          Fetched(<<Payload("z1", 50, <<>>)>>)}
    ELSE {FetchError, Fetched(<<>>)}

\* u1 was taken yesterday and has n items, all of them staged
UnitPaths(n) ==
    [i \in 1..n |-> IF i % 2 = 1 THEN Vid(A, "u1", i - 1) ELSE Img(A, "u1", i - 1)]
UnitStories(n) ==
    <<Story("u1", Midnight(2) - 7200, [i \in 1..n |-> Url("u1", i - 1, i % 2 = 1)],
            [i \in 1..n |-> IF i % 2 = 1 THEN "video" ELSE "image"], UnitPaths(n), <<>>)>>
UnitScenario(n) ==
    Scenario(Ledger(<<[k |-> A, v |-> Acct(UnitStories(n), None_, None_)]>>),
             SeqToSet(UnitPaths(n)), <<>>)

StoryIds == {"s1", "s2", "o1", "o2", "p1", "b1", "l1", "n1", "n2", "n3", "u1", "z1", "m1"}

(***************************************************************************)
(* Port outcomes of one handler call: the set of failing calls.            *)
(***************************************************************************)
MaxFail == 1
MaxItems == 2
MaxPosts == 3

Points(ids) ==
    ({"dl"} \X ids \X (1..MaxItems)) \cup ({"up"} \X {""} \X (1..MaxItems * Cardinality(ids)))
        \cup ({"tw"} \X {""} \X (1..MaxPosts))

RECURSIVE FailSets(_, _)
FailSets(points, n) ==
    IF n = 0 THEN {{}}
    ELSE LET fewer == FailSets(points, n - 1)
         IN  fewer \cup {F \cup {x} : F \in fewer, x \in points}

Outcomes(ids) == FailSets(Points(ids), MaxFail)

\* A direct call meets at most one failing port call
CallOutcomes(ids) == FailSets(Points(ids), 1)

\* During an archive pass the media host is reachable, or it is not
ArchiveOutcomes(ids) == {{}, {"dl"} \X ids \X (1..MaxItems)}

Dl(F) == [s \in StoryIds |-> [i \in 1..MaxItems |-> <<"dl", s, i>> \notin F]]
Up(F) == [k \in 1..(MaxItems * Cardinality(StoryIds)) |-> <<"up", "", k>> \notin F]
Tw(F) == [k \in 1..(MaxPosts + Cardinality(StoryIds)) |-> <<"tw", "", k>> \notin F]

(***************************************************************************)
(* The state machine: invocations of main.py, one after the other.         *)
(***************************************************************************)
\* archived is total_processed of the archive pass; clean says that no port
\* call of the invocation has failed so far; failed counts the units of work
\* that a post pass tried and did not post
Idle == [mode |-> "idle", phase |-> "idle", i |-> 0, base |-> 0, archived |-> 0,
         clean |-> TRUE, failed |-> 0]

\* What the most recent handler call did
Obs(op, username, unit, w, ret, n, tried) ==
    [op |-> op, a |-> username, unit |-> unit, ret |-> ret, n |-> n, tried |-> tried,
     dls |-> w.dls, ups |-> w.ups, calls |-> w.calls, made |-> w.made, gone |-> w.gone,
     dead |-> w.dead, unsaved |-> w.unsaved, exit |-> None_, failed |-> 0, allok |-> TRUE]

NoObs == [op |-> "none", a |-> <<>>, unit |-> <<>>, ret |-> FALSE, n |-> 0, tried |-> <<>>,
          dls |-> <<>>, ups |-> <<>>, calls |-> <<>>, made |-> <<>>, gone |-> {},
          dead |-> FALSE, unsaved |-> 0, exit |-> None_, failed |-> 0, allok |-> TRUE]

InitFrom(scenarios) ==
    /\ now = Now0
    /\ \E sc \in scenarios : disk = sc.disk /\ cache = sc.cache /\ tweets = sc.tweets
    /\ data = EmptyData
    /\ dflt = DefaultUsername(INSTAGRAM_USERNAME)
    /\ pc = Idle
    /\ queue = <<>>
    /\ last = NoObs

Init == InitFrom(Scenarios)

\* The world the running invocation acts on
Here(fuel, torn) == World(data, disk, cache, tweets, now, fuel, torn)

\* Fault: the invocation ends with the pass of the first account
AfterAccountStopping == Idle

\* The position after account pc.i is done in the current pass
AfterAccount ==
    IF pc.i < Len(INSTAGRAM_USERNAMES) THEN [pc EXCEPT !.i = @ + 1, !.phase =
                                               IF pc.phase = "archive" THEN "archive" ELSE "select"]
    ELSE IF pc.phase = "archive" /\ pc.mode = "run" THEN [pc EXCEPT !.i = 1, !.phase = "select"]
    ELSE Idle

\* Whether every port call of a handler call succeeded
Clean(obs) ==
    /\ \A k \in DOMAIN obs.dls : obs.dls[k].ok
    /\ \A k \in DOMAIN obs.ups : obs.ups[k].ok
    /\ \A k \in DOMAIN obs.calls : obs.calls[k].ok
    /\ obs.op = "archive" => obs.ret

\* Whether a handler call is a unit of work that was tried and not posted
NotPosted(obs) == obs.op \in {"post_story", "post_day"} /\ ~obs.ret

\* main(): what post_pending_stories / post_pending_stories_daily return (an
\* int), and whether `new_posted, new_failed = ...` can unpack it
PostPassReturn == [kind |-> "int"]
UnpacksAsPair(value) == value.kind = "pair"

\* main(): the exit status of an invocation that ran to its end.  A TypeError
\* raised by the unpacking is caught by `except Exception` and ends in
\* sys.exit(1); "fetch" never reaches a post pass and new_failed stays 0.
ExitStatus(mode, new_failed) ==
    IF mode = "fetch" THEN 0
    ELSE IF ~UnpacksAsPair(PostPassReturn) THEN 1
    ELSE IF new_failed > 0 THEN 1 ELSE 0

\* The observation of the handler call that ends an invocation of main()
\* carries the exit status
Exiting(w, obs, next_pc) ==
    ~w.dead /\ next_pc.phase = "idle" /\ pc.mode \in {"run", "fetch", "daily"}

\* The effects of a handler call become the state; a killed process is gone,
\* and so is the memory of one that has exited.
Commit(w, obs, next_pc, next_queue) ==
    /\ disk' = w.disk
    /\ cache' = w.cache
    /\ tweets' = w.tweets
    /\ pc' = IF w.dead \/ next_pc.phase = "idle" THEN Idle
             ELSE [next_pc EXCEPT !.clean = @ /\ Clean(obs),
                                  !.archived = IF obs.op = "archive" THEN @ + obs.n ELSE @,
                                  !.failed = IF NotPosted(obs) THEN @ + 1 ELSE @]
    /\ data' = IF w.dead \/ next_pc.phase = "idle" THEN EmptyData ELSE w.data
    /\ queue' = IF w.dead THEN <<>> ELSE next_queue
    /\ last' = IF Exiting(w, obs, next_pc)
               THEN [obs EXCEPT !.failed = pc.failed + (IF NotPosted(obs) THEN 1 ELSE 0),
                                !.allok = pc.clean /\ Clean(obs),
                                !.exit = ExitStatus(pc.mode,
                                             pc.failed + (IF NotPosted(obs) THEN 1 ELSE 0))]
               ELSE obs
    /\ UNCHANGED <<now, dflt>>

\* main(): StoryArchiver(config) builds ArchiveManager, which loads the ledger.
\* Modes: "run" (archive, then post_pending_stories), "fetch" (--fetch-only or
\* --archive-only), "daily" (--post-daily); "post" is a caller that builds a
\* StoryArchiver and calls post_pending_stories alone.
Start(mode) ==
    /\ pc.phase = "idle"
    /\ ~LoadRaises(disk)
    /\ data' = _load_archive(disk, dflt)
    /\ pc' = [mode |-> mode, phase |-> IF mode \in {"daily", "post"} THEN "select" ELSE "archive",
              i |-> 1, base |-> Len(tweets), archived |-> 0, clean |-> TRUE, failed |-> 0]
    /\ last' = [NoObs EXCEPT !.op = "start"]
    /\ UNCHANGED <<now, disk, cache, tweets, dflt, queue>>

\* archive_all_stories / archive_only: one account of the loop
ArchiveAccountStep(fuel, torn) ==
    /\ pc.phase = "archive"
    /\ LET username == INSTAGRAM_USERNAMES[pc.i]
       IN  \E stories \in Feeds(username) :
           \E F \in ArchiveOutcomes({stories.items[k].pk : k \in DOMAIN stories.items}) :
               \E r \in {archive_all_stories_for_user(Here(fuel, torn), username, stories,
                                                        Dl(F), now)} :
                   Commit(r.w, Obs("archive", username,
                                   [k \in DOMAIN stories.items |-> stories.items[k].pk],
                                   r.w, ~stories.err, r.ret.count, r.ret.tried),
                          AfterAccount, <<>>)

\* post_pending_stories: the selection for one account
PostBegin ==
    /\ pc.phase = "select" /\ pc.mode \in {"run", "post"}
    /\ LET username == INSTAGRAM_USERNAMES[pc.i]
           stories_to_post == StoriesToPost(data, username, now)
           w == [Here(NoCrash, FALSE) EXCEPT !.data = _get_account(@, username)]
       IN  Commit(w, Obs("select", username,
                         [k \in DOMAIN stories_to_post |-> stories_to_post[k].story_id],
                         w, TRUE, Len(stories_to_post), <<>>),
                  IF stories_to_post = <<>> THEN AfterAccount ELSE [pc EXCEPT !.phase = "post"],
                  [k \in DOMAIN stories_to_post |-> <<stories_to_post[k]>>])

\* post_pending_stories: one iteration of `for story in stories_to_post`
PostNextIn(w0) ==
    /\ pc.phase = "post" /\ pc.mode \in {"run", "post"}
    /\ LET username == INSTAGRAM_USERNAMES[pc.i]
           story_id == Head(queue)[1].story_id
       IN  \E F \in Outcomes({story_id}) :
               \E r \in {post_story(w0, username, story_id,
                                      Dl(F)[story_id], Up(F), Tw(F))} :
                   Commit(r.w, Obs("post_story", username, <<story_id>>, r.w, r.ret,
                                   IF r.ret THEN 1 ELSE 0, <<>>),
                          IF Tail(queue) = <<>> THEN AfterAccount ELSE pc, Tail(queue))

\* post_pending_stories_daily: the selection and grouping for one account
DailyBegin ==
    /\ pc.phase = "select" /\ pc.mode = "daily"
    /\ LET username == INSTAGRAM_USERNAMES[pc.i]
           groups == DayGroups(data, username, now)
           picked == [g \in DOMAIN groups |->
                        [k \in DOMAIN groups[g] |-> groups[g][k].story_id]]
           w == [Here(NoCrash, FALSE) EXCEPT !.data = _get_account(@, username)]
       IN  Commit(w, Obs("select_daily", username, picked, w, TRUE, Len(groups), <<>>),
                  IF groups = <<>> THEN AfterAccount ELSE [pc EXCEPT !.phase = "post"],
                  groups)

\* post_pending_stories_daily: one iteration of the loop over days
DailyNextIn(w0) ==
    /\ pc.phase = "post" /\ pc.mode = "daily"
    /\ LET username == INSTAGRAM_USERNAMES[pc.i]
           day_stories == Head(queue)
           ids == [k \in DOMAIN day_stories |-> day_stories[k].story_id]
       IN  \E F \in Outcomes(SeqToSet(ids)) :
               \E r \in {post_day(w0, username, day_stories,
                                    Dl(F), Up(F), Tw(F))} :
                   Commit(r.w, Obs("post_day", username, ids, r.w, r.ret > 0, r.ret, <<>>),
                          IF Tail(queue) = <<>> THEN AfterAccount ELSE pc, Tail(queue))

PostNextStep(fuel, torn) == PostNextIn(Here(fuel, torn))
DailyNextStep(fuel, torn) == DailyNextIn(Here(fuel, torn))

ArchiveAccount == ArchiveAccountStep(NoCrash, FALSE)
PostNext == PostNextStep(NoCrash, FALSE)
DailyNext == DailyNextStep(NoCrash, FALSE)

\* Between invocations a day goes by
Tick ==
    /\ pc.phase = "idle"
    /\ now < Now0 + MaxDays * DaySeconds
    /\ now' = now + DaySeconds
    /\ last' = [NoObs EXCEPT !.op = "tick"]
    /\ UNCHANGED <<disk, cache, tweets, data, dflt, pc, queue>>

\* A caller that builds a StoryArchiver on the durable state, makes one call and
\* exits: the world it starts from, and the story ids it may name
Fresh == World(_load_archive(disk, dflt), disk, cache, tweets, now, NoCrash, FALSE)
Named(username) == get_archived_story_ids(Fresh.data, username) \cup {"n1"}
OnePayload(story_id) == Payload(story_id, 100, <<Media(Url(story_id, 0, FALSE), "image")>>)

\* StoryArchiver.post_story(username, story_id), called directly
CallPostStory ==
    /\ pc.phase = "idle"
    /\ \E username \in SeqToSet(INSTAGRAM_USERNAMES) : \E story_id \in Named(username) :
       \E F \in CallOutcomes({story_id}) :
       \E r \in {post_story(Fresh, username, story_id, Dl(F)[story_id], Up(F), Tw(F))} :
           Commit(r.w, Obs("post_story", username, <<story_id>>, r.w, r.ret,
                           IF r.ret THEN 1 ELSE 0, <<>>),
                  Idle, <<>>)

\* StoryArchiver.archive_story(username, story_id, story_payload), called directly
CallArchiveStoryIn(w0) ==
    /\ pc.phase = "idle"
    /\ \E username \in SeqToSet(INSTAGRAM_USERNAMES) : \E story_id \in Named(username) :
       \E F \in ArchiveOutcomes({story_id}) :
       \E r \in {archive_story(w0, username, story_id, OnePayload(story_id),
                               Dl(F)[story_id])} :
           Commit(r.w, Obs("archive_story", username, <<story_id>>, r.w, r.ret,
                           IF r.ret THEN 1 ELSE 0, <<>>),
                  Idle, <<>>)

CallArchiveStory == CallArchiveStoryIn(Fresh)

\* A fetched story of two items, a video and then an image
MixedPayload(story_id) ==
    Payload(story_id, 100, <<Media(Url(story_id, 0, TRUE), "video"),
                             Media(Url(story_id, 1, FALSE), "image")>>)

\* StoryArchiver.archive_story(username, "m1", story_payload) on that story;
\* each of the two downloads succeeds or fails
CallArchiveMixed ==
    /\ pc.phase = "idle"
    /\ \E username \in SeqToSet(INSTAGRAM_USERNAMES) :
       \E F \in SUBSET ({"dl"} \X {"m1"} \X (1..MaxItems)) :
       \E r \in {archive_story(Fresh, username, "m1", MixedPayload("m1"), Dl(F)["m1"])} :
           Commit(r.w, Obs("archive_mixed", username, <<"m1">>, r.w, r.ret,
                           IF r.ret THEN 1 ELSE 0, <<>>),
                  Idle, <<>>)

\* The story_data a caller of add_story supplies: one image, with its staged
\* file, its media type and the legacy local_media_path
AddStoryData(username, story_id) ==
    ArchiveData(1, <<Url(story_id, 0, FALSE)>>, 100, <<Img(username, story_id, 0)>>,
                <<"image">>)
        @@ [local_media_path |-> <<Img(username, story_id, 0)>>]

\* ArchiveManager.add_story(username, story_id, story_data), called directly
CallAddStory ==
    /\ pc.phase = "idle"
    /\ \E username \in SeqToSet(INSTAGRAM_USERNAMES) : \E story_id \in Named(username) :
       \E r \in {add_story(Fresh, username, story_id, AddStoryData(username, story_id))} :
           Commit(r.w, Obs("add_story", username, <<story_id>>, r.w, r.ret,
                           IF r.ret THEN 1 ELSE 0, <<>>),
                  Idle, <<>>)

Next ==
    \/ \E mode \in {"run", "fetch", "daily"} : Start(mode)
    \/ ArchiveAccount
    \/ PostBegin
    \/ PostNext
    \/ DailyBegin
    \/ DailyNext
    \/ Tick

Spec == Init /\ [][Next]_vars

\* The operations called one at a time on the durable state
NextCall ==
    \/ \E mode \in {"post", "daily"} : Start(mode)
    \/ PostBegin
    \/ PostNext
    \/ DailyBegin
    \/ DailyNext
    \/ CallPostStory
    \/ CallArchiveStory
    \/ CallAddStory

InitCall == InitFrom({EmptyScenario, BoundaryScenario, PostedScenario})

SpecCall == InitCall /\ [][NextCall]_vars

\* The process is killed during the handler call, after fuel durable effects
PostNextKilled ==
    \E fuel \in 0..MaxFuel, torn \in BOOLEAN : PostNextStep(fuel, torn) /\ last'.dead
DailyNextKilled ==
    \E fuel \in 0..MaxFuel, torn \in BOOLEAN : DailyNextStep(fuel, torn) /\ last'.dead

\* The post passes, each invocation possibly killed
NextCrash ==
    \/ \E mode \in {"post", "daily"} : Start(mode)
    \/ PostBegin
    \/ PostNext
    \/ DailyBegin
    \/ DailyNext
    \/ PostNextKilled
    \/ DailyNextKilled

InitCrash == InitFrom({BoundaryScenario})

SpecCrash == InitCrash /\ [][NextCrash]_vars

\* The ledger writes of the process raise after n of them have succeeded
MaxSaves == 3

PostNextFailing ==
    \E n \in 0..MaxSaves : PostNextIn(Failing(Here(NoCrash, FALSE), n)) /\ last'.unsaved > 0
CallArchiveStoryFailing ==
    \E n \in 0..MaxSaves : CallArchiveStoryIn(Failing(Fresh, n)) /\ last'.unsaved > 0

\* The immediate post pass and archive_story, the ledger file possibly not
\* writable
NextFault ==
    \/ Start("post")
    \/ PostBegin
    \/ PostNext
    \/ PostNextFailing
    \/ CallArchiveStoryFailing

InitFault == InitFrom({BoundaryScenario})

SpecFault == InitFault /\ [][NextFault]_vars

\* One unit of work of 1 to MaxMedia items, posted by either policy
NextUnit ==
    \/ \E mode \in {"post", "daily"} : Start(mode)
    \/ PostBegin
    \/ PostNext
    \/ DailyBegin
    \/ DailyNext
    \/ CallPostStory

InitUnit == InitFrom({UnitScenario(n) : n \in 1..MaxMedia})

SpecUnit == InitUnit /\ [][NextUnit]_vars

\* The ledger file alone: a legacy single-account file is opened by
\* ArchiveManager(db_path, default), saved, and the manager dropped.
\* The handle as the configuration spells it
Spellings == {A, B, <<"@", "a">>, <<" ", "b", " ">>}

LegacyThreads == {<<None_, None_>>, <<1, 1>>, <<1, 2>>}
LegacyChecks == {None_, Now0 - DaySeconds}
LegacyLists == {<<>>, LegacyStories, BoundaryStories, PostedStories}

\* Files of the multi-account schema, by their schema_version and accounts
Versions == {None_, 0, 1, SchemaVersion, 3, NotANumber}
AccountFiles ==
    {RawFile("accounts", ver, accounts, _empty_account) :
        ver \in Versions,
        accounts \in {<<>>, <<[k |-> A, v |-> Acct(PostedStories, 1, 2)]>>,
                      <<[k |-> <<"@", "a">>, v |-> Acct(BoundaryStories, None_, None_)],
                        [k |-> B, v |-> Acct(SecondStories, None_, None_)]>>}}

InitLedger ==
    /\ now = Now0
    /\ \/ \E stories \in LegacyLists, thread \in LegacyThreads, check \in LegacyChecks :
             disk = LegacyFile([Acct(stories, thread[1], thread[2]) EXCEPT !.last_check = check])
       \/ disk \in {MissingFile, GarbageFile, OtherFile} \cup AccountFiles
    /\ cache = {}
    /\ tweets = <<>>
    /\ data = EmptyData
    /\ \E configured \in Spellings : dflt = DefaultUsername(configured)
    /\ pc = Idle
    /\ queue = <<>>
    /\ last = NoObs

\* ArchiveManager.__init__: self.data = self._load_archive()
LedgerOpen ==
    /\ pc.phase = "idle"
    /\ data' = IF LoadRaises(disk) THEN EmptyData ELSE _load_archive(disk, dflt)
    /\ pc' = [Idle EXCEPT !.mode = "ledger",
                          !.phase = IF LoadRaises(disk) THEN "raised"
                                    ELSE IF disk.tag = "legacy" THEN "migrated" ELSE "loaded"]
    /\ last' = [NoObs EXCEPT !.op = "load"]
    /\ UNCHANGED <<now, disk, cache, tweets, dflt, queue>>

\* ArchiveManager._save_archive on the document in memory
LedgerSave ==
    /\ pc.mode = "ledger" /\ pc.phase \in {"migrated", "loaded"}
    /\ disk' = _save_archive(Here(NoCrash, FALSE)).disk
    /\ pc' = [pc EXCEPT !.phase = IF @ = "migrated" THEN "resaved" ELSE "saved"]
    /\ last' = [NoObs EXCEPT !.op = "save"]
    /\ UNCHANGED <<now, cache, tweets, data, dflt, queue>>

\* The process exits
LedgerClose ==
    /\ pc.mode = "ledger"
    /\ pc' = Idle
    /\ data' = EmptyData
    /\ last' = [NoObs EXCEPT !.op = "exit"]
    /\ UNCHANGED <<now, disk, cache, tweets, dflt, queue>>

NextLedger ==
    \/ LedgerOpen
    \/ LedgerSave
    \/ LedgerClose

SpecLedger == InitLedger /\ [][NextLedger]_vars

\* The staging area alone: files are downloaded and evicted one call at a time.
\* The files two images and a video may have left in the directory
MediaFiles ==
    {Img(A, "s1", 0), [Img(A, "s1", 0) EXCEPT !.comp = TRUE], Vid(A, "s1", 1),
     Img(A, "s2", 0), [Img(A, "s2", 0) EXCEPT !.comp = TRUE]}

InitMedia ==
    /\ now = Now0
    /\ disk = MissingFile
    /\ cache \in SUBSET MediaFiles
    /\ tweets = <<>>
    /\ data = EmptyData
    /\ dflt = DefaultUsername(INSTAGRAM_USERNAME)
    /\ pc = Idle
    /\ queue = <<>>
    /\ last = NoObs

\* MediaManager.cleanup_media(file_path), called directly
CallCleanupMedia ==
    /\ pc.phase = "idle"
    /\ \E path \in MediaFiles :
       \E w \in {cleanup_media(Here(NoCrash, FALSE), path)} :
           Commit(w, Obs("cleanup_media", path.a, <<path>>, w, CleanupResult(cache, path),
                         Cardinality(w.gone), <<>>),
                  Idle, <<>>)

\* MediaManager.download_media(url, media_id, media_type), called directly
CallDownloadMedia ==
    /\ pc.phase = "idle"
    /\ \E f \in {g \in MediaFiles : ~g.comp} : \E ok \in BOOLEAN :
       \E w \in {download_media(Here(NoCrash, FALSE), MediaId(f.a, f.s, f.i),
                                TypeOfExt(f.ext), ok)} :
           Commit(w, Obs("download_media", f.a, <<f>>, w, ok, 0, <<>>), Idle, <<>>)

NextMedia ==
    \/ CallCleanupMedia
    \/ CallDownloadMedia

SpecMedia == InitMedia /\ [][NextMedia]_vars

(***************************************************************************)
(* Properties.                                                             *)
(***************************************************************************)
\* The ledger as a fresh invocation loads it from the file
Persisted == _load_archive(disk, dflt)
\* and as it loads it after the step
PersistedNext == _load_archive(disk', dflt')

\* The record of a story in a ledger document, and its tweet_ids (none: <<>>)
Recorded(d, username, story_id) == FindStory(Stories(d, username), story_id) # 0
RecordOf(d, username, story_id) ==
    Stories(d, username)[FindStory(Stories(d, username), story_id)]
TweetIdsOf(d, username, story_id) ==
    IF Recorded(d, username, story_id) THEN RecordOf(d, username, story_id).tweet_ids
    ELSE <<>>

Usernames == SeqToSet(INSTAGRAM_USERNAMES)

\* The stories of `username` published by the posts t[lo..hi]
PublishedIn(t, lo, hi, username) ==
    UNION {t[k].text.unit : k \in {j \in lo..hi : t[j].a = username /\ t[j].text.kind = "story"}}

\* C1: crash-surviving at-most-once posting.  Invocations may be killed at any
\* point and are followed by fresh invocations that reload the ledger: a story
\* published by an earlier invocation (the posts up to pc.base, the length of
\* the thread when the running invocation started) is never published again.
C1_CrashSurvivingAtMostOnce ==
    [][\A username \in Usernames :
          PublishedIn(tweets', Len(tweets) + 1, Len(tweets'), username)
              \cap PublishedIn(tweets, 1, pc.base, username) = {}]_vars

\* What C2 asks of one step: before and after are the ledger a fresh
\* invocation would load before and after it, obs what the step's handler did
AtMostOnceStep(before, after, obs, t0, t1) ==
    \A username \in Usernames : \A k \in DOMAIN Stories(before, username) :
        LET story_id == Stories(before, username)[k].story_id
        IN  Stories(before, username)[k].tweet_ids # <<>> =>
              /\ TweetIdsOf(after, username, story_id)
                    = TweetIdsOf(before, username, story_id)
              /\ story_id \notin PublishedIn(t1, Len(t0) + 1, Len(t1), username)
              /\ obs.a = username =>
                    /\ \A j \in DOMAIN obs.ups : obs.ups[j].path.s # story_id
                    /\ \A j \in DOMAIN obs.calls : story_id \notin obs.calls[j].unit
              /\ (obs.op = "post_story" /\ obs.a = username /\ obs.unit = <<story_id>>)
                    => obs.ret /\ obs.ups = <<>> /\ obs.calls = <<>>

\* C2: at-most-once posting without crashes.  Once the record of a story has
\* tweet_ids, no step changes them, creates a post for the story, or makes an
\* upload_media or post_tweet call for it, whether the step is a direct
\* post_story call or part of a post pass; post_story on it returns True.
C2_AtMostOncePosting ==
    [][AtMostOnceStep(Persisted, PersistedNext, last', tweets, tweets')]_vars

\* b1 was posted by the program, and post_story was then called on it again
C2_Witness ==
    /\ last.op = "post_story" /\ last.a = B /\ last.unit = <<"b1">>
    /\ last.ret /\ last.ups = <<>> /\ last.calls = <<>>
    /\ Len(tweets) > Len(PostedThread)
    /\ TweetIdsOf(Persisted, B, "b1") # <<>>

\* What C3 asks of one step
IdempotentStep(before, after, obs, f0, f1) ==
    obs.op \in {"add_story", "archive_story"} =>
        IF Recorded(before, obs.a, obs.unit[1])
        THEN /\ ~obs.ret
             /\ Stories(after, obs.a) = Stories(before, obs.a)
             /\ obs.op = "add_story" => f1 = f0
        ELSE obs.op = "add_story" =>
             /\ obs.ret
             /\ Len(Stories(after, obs.a)) = Len(Stories(before, obs.a)) + 1
             /\ Recorded(after, obs.a, obs.unit[1])

\* C3: idempotent archive.  add_story on a story id the account does not hold
\* returns True and appends exactly one record for it; on a story id it holds,
\* add_story returns False and leaves the file as it is; archive_story on a
\* story id the account holds returns False and inserts nothing.
C3_IdempotentArchive ==
    [][IdempotentStep(Persisted, PersistedNext, last', disk, disk')]_vars

\* The story ids a selection picked, in order
SelectedIds(stories_to_post) == [k \in DOMAIN stories_to_post |-> stories_to_post[k].story_id]

\* C4: partial-media abort.  When post_story has run on a story with more than
\* one media URL and a download it needed has failed (fewer items prepared than
\* URLs), it has made no post_tweet call (no anchor, no reply) and no upload,
\* has returned False, the story's tweet_ids are empty, and the selection of
\* the next post pass picks the story again.
C4_PartialMediaAbort ==
    \A story_id \in StoryIds :
        (/\ last.op = "post_story" /\ last.unit = <<story_id>>
         /\ Recorded(Persisted, last.a, story_id)
         /\ Len(RecordOf(Persisted, last.a, story_id).media_urls) > 1
         /\ \E k \in DOMAIN last.dls : ~last.dls[k].ok)
        => /\ last.calls = <<>> /\ last.made = <<>> /\ last.ups = <<>>
           /\ ~last.ret
           /\ TweetIdsOf(Persisted, last.a, story_id) = <<>>
           /\ story_id \in SeqToSet(SelectedIds(StoriesToPost(Persisted, last.a, now)))

\* post_story has aborted on s1, one of whose two items could not be prepared
C4_Witness ==
    /\ last.op = "post_story" /\ last.a = A /\ last.unit = <<"s1">>
    /\ Len(RecordOf(Persisted, A, "s1").media_urls) = 2
    /\ \E k \in DOMAIN last.dls : ~last.dls[k].ok
    /\ ~last.ret /\ last.calls = <<>>

\* The pending stories of an account taken on a calendar day (UTC+7) before
\* the current one
TakenBeforeToday(username) ==
    {st.story_id : st \in {x \in SeqToSet(Stories(Persisted, username)) :
                             /\ x.tweet_ids = <<>>
                             /\ x.taken_at # None_
                             /\ DateKey(x.taken_at) < DateKey(now)}}

\* C5: eligibility boundary.  The selection of post_pending_stories and of
\* post_pending_stories_daily picks exactly the pending stories taken strictly
\* before 00:00:00 of the current day in UTC+7; the others stay pending.
C5_EligibilityBoundary ==
    /\ last.op = "select" => SeqToSet(last.unit) = TakenBeforeToday(last.a)
    /\ last.op = "select_daily" =>
           UNION {SeqToSet(last.unit[g]) : g \in DOMAIN last.unit} = TakenBeforeToday(last.a)

\* s1, taken at 23:59:59 yesterday, is picked; s2, taken at 00:00:00 today, is
\* not picked and is still pending
C5_Witness ==
    /\ last.op = "select" /\ last.a = A
    /\ Recorded(Persisted, A, "s1") /\ Recorded(Persisted, A, "s2")
    /\ RecordOf(Persisted, A, "s1").taken_at = Midnight(DateKey(now)) - 1
    /\ RecordOf(Persisted, A, "s2").taken_at = Midnight(DateKey(now))
    /\ last.unit = <<"s1">>
    /\ TweetIdsOf(Persisted, A, "s2") = <<>>

\* The stories of the feed of account A: n3, n1, n2 taken at 300, 100, 200
FetchedIds == {"n1", "n2", "n3"}

\* C6: ordering.  When an archive pass has fetched n3, n1, n2 (taken at 300,
\* 100, 200) and archived all three, it has handed them to archive_story in
\* the order n1, n2, n3, and the post pass then calls post_story on them in
\* that order.
C6_Ordering ==
    (last.op = "archive" /\ last.a = A /\ last.unit = <<"n3", "n1", "n2">>
        /\ Len(last.tried) = 3)
    => /\ last.tried = <<"n1", "n2", "n3">>
       /\ SelectSeq(SelectedIds(StoriesToPost(Persisted, A, now)),
                    LAMBDA story_id : story_id \in FetchedIds) = <<"n1", "n2", "n3">>

\* C10: end-to-end scenario.  An invocation that found the ledger of account A
\* empty and the thread empty, archived the three fetched stories and has
\* finished the post pass of A with no port call failing: exactly the stories
\* taken before today have tweet_ids, those taken today are recorded and
\* pending, the anchor was posted first and once, and the first reply answers
\* the anchor.
C10_EndToEnd ==
    (/\ pc.mode = "run" /\ pc.phase = "select" /\ pc.i = 2
     /\ pc.clean /\ pc.base = 0 /\ pc.archived = 3
     /\ \A k \in DOMAIN Stories(Persisted, A) :
            Stories(Persisted, A)[k].story_id \in FetchedIds)
    => /\ \A story_id \in FetchedIds : TweetIdsOf(Persisted, A, story_id) # <<>>
       /\ \A k \in DOMAIN Stories(Persisted, A) :
              Stories(Persisted, A)[k].tweet_ids # <<>>
                 <=> DateKey(Stories(Persisted, A)[k].taken_at) < DateKey(now)
       /\ Len(tweets) >= 2
       /\ tweets[1].text.kind = "anchor"
       /\ Cardinality({k \in DOMAIN tweets : tweets[k].a = A
                                               /\ tweets[k].text.kind = "anchor"}) = 1
       /\ tweets[2].reply_to = 1

\* ceil(n / 4): the least c with 4 * c >= n
CeilQuarter(n) == CHOOSE c \in 0..n : 4 * c >= n /\ 4 * (c - 1) < n

RECURSIVE Flatten(_)
Flatten(seqs) == IF seqs = <<>> THEN <<>> ELSE Head(seqs) \o Flatten(Tail(seqs))

\* The story posts a handler call created, in order
StoryPosts(obs) == SelectSeq(obs.made, LAMBDA id : tweets[id].text.kind = "story")

\* C7: batching.  The N >= 1 staged items of a pending story are partitioned
\* into exactly ceil(N/4) batches of 1 to 4 items whose concatenation is the
\* list; and when a unit of work has been posted with every upload and every
\* post_tweet succeeding, its N uploaded items went out in exactly ceil(N/4)
\* posts of 1 to 4 items each, in the order of the list.
C7_Batching ==
    /\ \A username \in Usernames : \A k \in DOMAIN Stories(Persisted, username) :
          LET media_paths == StoredPaths(Stories(Persisted, username)[k])
              media_batches == Batches(media_paths)
          IN  Len(media_paths) >= 1 =>
                /\ Len(media_batches) = CeilQuarter(Len(media_paths))
                /\ \A b \in DOMAIN media_batches : Len(media_batches[b]) \in 1..4
                /\ Flatten(media_batches) = media_paths
    /\ (last.op \in {"post_story", "post_day"} /\ last.ret /\ Clean(last)
           /\ Len(last.ups) >= 1) =>
          /\ Len(StoryPosts(last)) = CeilQuarter(Len(last.ups))
          /\ \A b \in DOMAIN StoryPosts(last) : Len(tweets[StoryPosts(last)[b]].media) \in 1..4
          /\ Flatten([b \in DOMAIN StoryPosts(last) |-> tweets[StoryPosts(last)[b]].media])
                = [j \in DOMAIN last.ups |-> last.ups[j].path]

\* the nine items of u1 have gone out in three posts
C7_Witness ==
    /\ last.op = "post_story" /\ last.unit = <<"u1">> /\ last.ret /\ Clean(last)
    /\ RecordOf(Persisted, A, "u1").media_count = 9
    /\ Len(last.ups) = 9
    /\ Len(StoryPosts(last)) = 3

\* C8: legacy migration round trip.  Loading a legacy single-account file
\* gives a schema_version 2 document with exactly one account, keyed by the
\* configured default handle, whose archived_stories, last_check, anchor and
\* last tweet id are those of the file; once that document is saved, loading
\* the file again gives the same document.
C8_LegacyRoundTrip ==
    /\ pc.phase \in {"migrated", "resaved"} =>
          /\ data.schema_version = 2
          /\ Len(data.accounts) = 1
          /\ dflt \in {A, B}
          /\ data.accounts[1].k = dflt
    /\ pc.phase = "migrated" =>
          /\ disk.tag = "legacy"
          /\ data.accounts[1].v.archived_stories = disk.legacy.archived_stories
          /\ data.accounts[1].v.last_check = disk.legacy.last_check
          /\ data.accounts[1].v.anchor_tweet_id = disk.legacy.anchor_tweet_id
          /\ data.accounts[1].v.last_tweet_id = disk.legacy.last_tweet_id
    /\ pc.phase = "resaved" =>
          /\ disk.tag = "accounts"
          /\ _load_archive(disk, dflt) = data

\* a migrated ledger with stories and a thread has been saved
C8_Witness ==
    /\ pc.phase = "resaved"
    /\ disk.tag = "accounts"
    /\ data.accounts[1].v.archived_stories = BoundaryStories
    /\ data.accounts[1].v.last_tweet_id = 2
    /\ dflt = B

\* C9: eviction pairing.  cleanup_media on an existing canonical image removes
\* it and its compressed sibling when there is one, on an existing compressed
\* image removes it and the canonical file when there is one, in both cases
\* nothing else, and returns True; on a path that does not exist it removes
\* nothing and returns False.
C9_EvictionPairing ==
    last.op = "cleanup_media" =>
        LET path == last.unit[1]
            before == cache \cup last.gone
            sibling == [path EXCEPT !.comp = ~@]
        IN  IF path \notin before
            THEN last.gone = {} /\ ~last.ret
            ELSE /\ last.ret
                 /\ path \notin cache
                 /\ path.ext = "jpg" => sibling \notin cache
                 /\ last.gone = {path} \cup (IF path.ext = "jpg" THEN {sibling} \cap before
                                             ELSE {})
                 /\ cache = before \ last.gone

\* the canonical image of s1 has been evicted together with its compressed sibling
C9_Witness ==
    /\ last.op = "cleanup_media"
    /\ last.unit = <<Img(A, "s1", 0)>>
    /\ last.ret
    /\ last.gone = {Img(A, "s1", 0), [Img(A, "s1", 0) EXCEPT !.comp = TRUE]}
    /\ cache \cap last.gone = {}

\* Whether the Post Port holds a post created for `username`
HasPost(t, username) == \E k \in DOMAIN t : t[k].a = username

\* C11: anchor invariant.  In every durable state, states reached after a kill
\* and a restart included, the ledger file records an anchor_tweet_id for an
\* account if and only if a post (anchor or reply) has been created for it.
C11_AnchorInvariant ==
    \A username \in Usernames :
        get_anchor_tweet_id(Persisted, username) > 0 <=> HasPost(tweets, username)

\* Whether post `id` of thread t is `anchor_id` or a transitive reply to it
RECURSIVE Reaches(_, _, _)
Reaches(t, id, anchor_id) ==
    IF id = anchor_id THEN TRUE
    ELSE IF id \notin DOMAIN t THEN FALSE
    ELSE IF t[id].reply_to \notin 1..(id - 1) THEN FALSE
    ELSE Reaches(t, t[id].reply_to, anchor_id)

\* What C12 asks of a ledger document d and the thread t
ThreadTail(d, t) ==
    \A username \in Usernames :
        get_last_tweet_id(d, username) > 0 =>
            /\ get_last_tweet_id(d, username) \in DOMAIN t
            /\ get_anchor_tweet_id(d, username) > 0
            /\ Reaches(t, get_last_tweet_id(d, username), get_anchor_tweet_id(d, username))

\* C12: thread-tail invariant.  Whenever last_tweet_id of an account is set, in
\* the ledger file or in the memory of the running invocation, it is the id of
\* a post that was created and that is the anchor of the account or a
\* transitive reply to it.
C12_ThreadTail ==
    /\ ThreadTail(Persisted, tweets)
    /\ pc.phase # "idle" => ThreadTail(data, tweets)

\* The tail of A's thread is a reply that the program created two replies
\* below the anchor that the program created
C12_Witness ==
    /\ get_anchor_tweet_id(Persisted, A) = 1
    /\ get_last_tweet_id(Persisted, A) = 3
    /\ tweets[3].reply_to = 2 /\ tweets[2].reply_to = 1
    /\ last.op = "post_story" /\ last.ret /\ last.made = <<3>>

\* C13: atomic persist.  A step in which a ledger write raised, or in which
\* the process was killed, leaves the ledger file as it was or as a complete
\* document written by a successful save: the file never becomes one that
\* loads as an empty ledger when it held accounts before.
C13_AtomicPersist ==
    [][(last'.dead \/ last'.unsaved > 0) =>
          /\ disk' = disk \/ disk'.tag = "accounts"
          /\ Persisted.accounts # <<>> => PersistedNext.accounts # <<>>]_vars

\* What the ledger records of an account: its stories, anchor and thread tail
Recorded3(d, username) ==
    <<Stories(d, username), get_anchor_tweet_id(d, username), get_last_tweet_id(d, username)>>

\* C14: persistence failure is a failure.  When a ledger write raised during a
\* handler call, archive_story does not return True, a post unit of work is
\* not reported as posted, and the memory of the running invocation holds no
\* change that the ledger file does not hold.
C14_PersistenceFailure ==
    last.unsaved > 0 =>
        /\ last.op \in {"archive_story", "post_story", "post_day"} => ~last.ret
        /\ pc.phase # "idle" =>
              \A username \in Usernames :
                  Recorded3(data, username) = Recorded3(Persisted, username)

\* C15: load never fails hard.  Whatever the ledger file holds, constructing
\* the ArchiveManager does not raise and yields a schema_version 2 document,
\* with no accounts when the file is missing, unparseable or of no known shape.
C15_LoadNeverFails ==
    (pc.mode = "ledger" /\ last.op = "load") =>
        /\ pc.phase # "raised"
        /\ data.schema_version = SchemaVersion
        /\ disk.tag \in {"missing", "garbage", "other"} => data.accounts = <<>>

\* What C16 asks of one step: before and after are the ledger file as loaded
\* before and after it, mem0 and mem1 the memory of the invocation, running
\* whether the invocation runs on after the step
IndependentStep(before, after, obs, mem0, mem1, running) ==
    obs.op \in {"archive", "select", "select_daily", "post_story", "post_day",
                "add_story", "archive_story"} =>
        \A username \in Usernames :
            username # NormHandle(obs.a) =>
                /\ Recorded3(after, username) = Recorded3(before, username)
                /\ running => Recorded3(mem1, username) = Recorded3(mem0, username)

\* C16: account independence.  A handler call made for one account (an archive
\* pass, a selection, a post unit of work, and the add_story,
\* update_story_tweets, set_anchor_tweet_id and set_last_tweet_id calls they
\* make) leaves archived_stories, anchor_tweet_id and last_tweet_id of every
\* other account unchanged, in the ledger file and in memory.
C16_AccountIndependence ==
    [][IndependentStep(Persisted, PersistedNext, last', data, data',
                       pc.phase # "idle" /\ pc'.phase # "idle" /\ last'.op # "start")]_vars

\* b1 of account B was posted under a new anchor while account A holds a
\* posted story, an anchor and a thread tail
C16_Witness ==
    /\ last.op = "post_story" /\ last.a = B /\ last.ret /\ Len(last.made) = 2
    /\ Recorded3(Persisted, A) = <<PostedStories, 1, 2>>
    /\ get_anchor_tweet_id(Persisted, B) = 3

\* The operations called under the handle as a caller spells it: with a leading
\* '@', in upper case, or both
Handles == {A, B, <<"@", "a">>, <<"A">>, <<"@", "A">>, <<"B">>}

\* StoryArchiver.post_story(handle, story_id), called directly
CallPostStoryAs ==
    /\ pc.phase = "idle"
    /\ \E handle \in Handles : \E username \in Usernames :
       \E story_id \in get_archived_story_ids(Fresh.data, username) :
       \E F \in {{}} :
       \E r \in {post_story(Fresh, handle, story_id, Dl(F)[story_id], Up(F), Tw(F))} :
           /\ Commit(r.w, Obs("post_story", handle, <<story_id>>, r.w, r.ret,
                              IF r.ret THEN 1 ELSE 0, <<>>),
                     Idle, <<>>)

\* StoryArchiver.archive_story(handle, story_id, story_payload), called directly
CallArchiveStoryAs ==
    /\ pc.phase = "idle"
    /\ \E handle \in Handles : \E story_id \in {"n1"} :
       \E F \in {{}} :
       \E r \in {archive_story(Fresh, handle, story_id, OnePayload(story_id),
                               Dl(F)[story_id])} :
           Commit(r.w, Obs("archive_story", handle, <<story_id>>, r.w, r.ret,
                           IF r.ret THEN 1 ELSE 0, <<>>),
                  Idle, <<>>)

NextHandle ==
    \/ CallPostStoryAs
    \/ CallArchiveStoryAs

InitHandle == InitFrom({BoundaryScenario, PostedScenario})

SpecHandle == InitHandle /\ [][NextHandle]_vars

\* str.lower() of a handle
Lower(h) == [i \in DOMAIN h |-> IF h[i] = "A" THEN "a" ELSE IF h[i] = "B" THEN "b" ELSE h[i]]

\* The handle in lower case without surrounding blanks and leading '@'
Canonical(h) == Lower(NormHandle(h))

\* C17: handle normalization.  After an operation was called under a handle,
\* every key of the ledger file is in lower case without a leading '@', and
\* handles that differ only in case or in a leading '@' address the same
\* account: the same stories, anchor and thread tail.
C17_HandleNormalization ==
    last.op \in {"archive_story", "post_story"} =>
        /\ \A i \in DOMAIN Persisted.accounts :
               Persisted.accounts[i].k = Canonical(Persisted.accounts[i].k)
        /\ \A handle \in Handles :
               Recorded3(Persisted, handle) = Recorded3(Persisted, Canonical(handle))

\* C18: records are never deleted.  A story recorded for an account stays
\* recorded under the same story_id across every step of archive passes (with
\* their reconciliation sweep), post passes and the cache evictions they make,
\* in the ledger file and in the memory of the running invocation.
C18_RecordsNeverDeleted ==
    [][\A username \in Usernames :
          /\ get_archived_story_ids(Persisted, username)
                 \subseteq get_archived_story_ids(PersistedNext, username)
          /\ (pc.phase # "idle" /\ pc'.phase # "idle") =>
                 get_archived_story_ids(data, username)
                     \subseteq get_archived_story_ids(data', username)]_vars

\* A story was posted and its staged media evicted; its record is still there,
\* now with the ids of its posts
C18_Witness ==
    /\ last.op = "post_story" /\ last.ret /\ last.gone # {}
    /\ \A story_id \in SeqToSet(last.unit) :
          /\ Recorded(Persisted, last.a, story_id)
          /\ TweetIdsOf(Persisted, last.a, story_id) # <<>>
          /\ \A f \in cache : ~(f.a = last.a /\ f.s = story_id)

\* C19: exit status.  An invocation of main() that ran to its end (a combined
\* archive-and-post run or a daily-digest post run) exits with a non-zero
\* status if a post attempt of the run failed, and with status zero when every
\* attempted unit of work was posted and no unexpected error occurred.
C19_ExitStatus ==
    last.exit # None_ =>
        /\ last.failed > 0 => last.exit # 0
        /\ (last.failed = 0 /\ last.allok) => last.exit = 0

\* C20: the stored record keeps its media fields.  After add_story(account, id,
\* data) returned True, the record of that story among the account's stories
\* (get_statistics(account)['stories']) carries the supplied media_count,
\* media_urls and taken_at, and the supplied local_media_paths, media_types and
\* local_media_path.
C20_StoredMediaFields ==
    (last.op = "add_story" /\ last.ret) =>
        \A story_id \in SeqToSet(last.unit) :
            /\ Recorded(Persisted, last.a, story_id)
            /\ LET record == RecordOf(Persisted, last.a, story_id)
                   supplied == AddStoryData(last.a, story_id)
               IN  /\ record.media_count = supplied.media_count
                   /\ record.media_urls = supplied.media_urls
                   /\ record.taken_at = supplied.taken_at
                   /\ record.local_media_paths = supplied.local_media_paths
                   /\ record.media_types = supplied.media_types
                   /\ record.local_media_path = supplied.local_media_path

\* A handler call that ran to its end and failed: the fetch of an account's
\* stories failed, or a post unit of work was tried and not posted
FailedUnit(obs) == ~obs.dead /\ ((obs.op = "archive" /\ ~obs.ret) \/ NotPosted(obs))

\* C21: failure isolation.  After a failed fetch or a failed post unit of work
\* the invocation goes on: the remaining units of the account are still queued
\* and come next, then the next configured account, then (in a combined run)
\* the post pass; the invocation ends only when nothing of them remains.
C21_FailureIsolation ==
    [][FailedUnit(last') =>
          /\ NotPosted(last') => queue' = Tail(queue)
          /\ queue' # <<>> => (pc'.phase = "post" /\ pc'.i = pc.i)
          /\ (queue' = <<>> /\ pc.i < Len(INSTAGRAM_USERNAMES)) =>
                 (pc'.i = pc.i + 1 /\ pc'.phase \in {"archive", "select"})
          /\ (queue' = <<>> /\ pc.i = Len(INSTAGRAM_USERNAMES)
                 /\ pc.phase = "archive" /\ pc.mode = "run") =>
                 (pc'.i = 1 /\ pc'.phase = "select")]_vars

\* A unit of work was posted in an invocation in which an earlier unit failed
C21_Witness ==
    /\ last.op \in {"post_story", "post_day"} /\ last.ret /\ last.made # <<>>
    /\ pc.failed > 0 \/ last.failed > 0

\* The story posts (not the anchor) that a handler call created, in creation
\* order; t is the thread after the call
StoryMade(obs, t) == SelectSeq(obs.made, LAMBDA id : t[id].text.kind = "story")

\* What C22 lists of an account's ledger: anchor_tweet_id, last_tweet_id, and
\* tweet_ids and local_media_paths of every story
LedgerView(d, username) ==
    <<get_anchor_tweet_id(d, username), get_last_tweet_id(d, username),
      [k \in DOMAIN Stories(d, username) |->
          <<Stories(d, username)[k].story_id, Stories(d, username)[k].tweet_ids,
            Stories(d, username)[k].local_media_paths>>]>>

\* C22: a failed unit of work leaves the ledger unchanged.  A post unit of work
\* (post_story, or one day of the daily pass) that ends with no story post
\* created is reported as failed, and after it anchor_tweet_id, last_tweet_id
\* and every story's tweet_ids and local_media_paths are what they were
\* before it.
C22_FailedUnitLeavesLedger ==
    [][(last'.op \in {"post_story", "post_day"} /\ ~last'.dead
            /\ StoryMade(last', tweets') = <<>>) =>
          /\ ~last'.ret
          /\ \A username \in Usernames :
                 LedgerView(PersistedNext, username) = LedgerView(Persisted, username)]_vars

\* C23: effects of a successful unit of work.  When a post unit of work
\* created at least one story post, then after it the tweet_ids of its stories
\* are the ids of the posts created, in creation order; last_tweet_id of the
\* account is the id of the last of them; no staged file of its stories is
\* left in the staging area; local_media_paths of its stories is empty; and
\* the unit is reported as posted.
C23_SuccessfulUnit ==
    (last.op \in {"post_story", "post_day"} /\ StoryPosts(last) # <<>>) =>
        /\ last.ret
        /\ get_last_tweet_id(Persisted, last.a) = StoryPosts(last)[Len(StoryPosts(last))]
        /\ \A story_id \in SeqToSet(last.unit) :
              /\ TweetIdsOf(Persisted, last.a, story_id) = StoryPosts(last)
              /\ RecordOf(Persisted, last.a, story_id).local_media_paths = <<>>
              /\ \A f \in cache : ~(f.a = last.a /\ f.s = story_id)
        /\ \A k \in DOMAIN last.ups : last.ups[k].path \notin cache

\* u1 went out in two posts although one port call of the unit failed
C23_Witness ==
    /\ last.op = "post_story" /\ last.unit = <<"u1">> /\ ~Clean(last)
    /\ Len(StoryPosts(last)) = 2
    /\ TweetIdsOf(Persisted, A, "u1") = StoryPosts(last)
    /\ last.gone # {}

\* The post_tweet calls a handler call made for story posts, in call order
StoryCalls(obs) == SelectSeq(obs.calls, LAMBDA c : c.unit # {})

\* The batch of the p-th upload_media call of a unit of work: every item of a
\* batch is uploaded, in the order of the list
UploadBatchOf(p) == (p - 1) \div BatchSize + 1

\* The batches of a unit of work that reached post_tweet: those with an
\* upload that succeeded
BatchesTried(obs) ==
    {UploadBatchOf(p) : p \in {q \in DOMAIN obs.ups : obs.ups[q].ok}}

\* The batch that the m-th post_tweet call for story posts was made for
BatchOfCall(obs, m) ==
    CHOOSE b \in BatchesTried(obs) : Cardinality({c \in BatchesTried(obs) : c <= b}) = m

\* C24: stop on post-create failure.  Within a unit of work, once post_tweet
\* has failed for batch k, no post_tweet call and no upload_media call is made
\* for a later batch, and tweet_ids of the unit's stories holds the posts
\* created for the batches before k.
C24_StopOnPostFailure ==
    \A m \in DOMAIN StoryCalls(last) :
        (last.op \in {"post_story", "post_day"} /\ ~StoryCalls(last)[m].ok) =>
            /\ m = Len(StoryCalls(last))
            /\ \A p \in DOMAIN last.ups : UploadBatchOf(p) <= BatchOfCall(last, m)
            /\ Len(StoryPosts(last)) = m - 1
            /\ \A story_id \in SeqToSet(last.unit) :
                   TweetIdsOf(Persisted, last.a, story_id) = StoryPosts(last)

\* the first batch of the nine items of u1 was posted and post_tweet failed for
\* the second: the ninth item was never uploaded
C24_Witness ==
    /\ last.op \in {"post_story", "post_day"} /\ last.unit = <<"u1">>
    /\ RecordOf(Persisted, A, "u1").media_count = 9
    /\ Len(StoryCalls(last)) = 2 /\ ~StoryCalls(last)[2].ok
    /\ Len(last.ups) = 8
    /\ Len(TweetIdsOf(Persisted, A, "u1")) = 1

\* Whether every batch of a unit of work was posted: no post_tweet call for a
\* story post failed and no batch was passed over for want of an upload
AllBatchesPosted(obs) ==
    /\ \A m \in DOMAIN StoryCalls(obs) : StoryCalls(obs)[m].ok
    /\ BatchesTried(obs) = 1..CeilQuarter(Len(obs.ups))

\* C25: daily-digest all-or-nothing marking.  After one day of the daily pass,
\* a story of the day's group has tweet_ids only if every batch of the group
\* was posted; then every story of the group has the same tweet_ids.
C25_DailyAllOrNothing ==
    last.op = "post_day" =>
        \A story_id \in SeqToSet(last.unit) :
            TweetIdsOf(Persisted, last.a, story_id) # <<>> =>
                /\ AllBatchesPosted(last)
                /\ \A other \in SeqToSet(last.unit) :
                       TweetIdsOf(Persisted, last.a, other)
                           = TweetIdsOf(Persisted, last.a, story_id)

\* Whether fewer items of the story could be prepared than it has media_urls:
\* a download of one of its items failed during the handler call
PartlyPrepared(obs, story) ==
    /\ Len(story.media_urls) > 1
    /\ \E k \in DOMAIN obs.dls : obs.dls[k].id.s = story.story_id /\ ~obs.dls[k].ok

\* C26: partial-data abort of the daily pass.  When a story of the day's group
\* has several media_urls and fewer of its items could be prepared, the day
\* creates no post, neither anchor nor reply, and leaves the records of the
\* group's stories as they were.
C26_DailyPartialAbort ==
    [][(last'.op = "post_day" /\ ~last'.dead
          /\ \E k \in DOMAIN Head(queue) : PartlyPrepared(last', Head(queue)[k])) =>
            /\ last'.made = <<>>
            /\ \A k \in DOMAIN Head(queue) :
                   RecordOf(PersistedNext, last'.a, Head(queue)[k].story_id)
                       = RecordOf(Persisted, last'.a, Head(queue)[k].story_id)]_vars

\* The group (0: none) of the selection `groups` that holds story_id
GroupOf(groups, story_id) ==
    IF \E g \in DOMAIN groups : story_id \in SeqToSet(groups[g])
    THEN CHOOSE g \in DOMAIN groups : story_id \in SeqToSet(groups[g])
    ELSE 0

\* C27: daily-digest grouping and order.  The daily pass selects the eligible
\* pending stories of the account, two of them in the same unit of work if and
\* only if their taken_at fall on the same UTC+7 calendar date, the units in
\* ascending date order; and the media uploaded for a unit are those of its
\* stories in ascending taken_at, each story's items in item-index order.
C27_DailyGrouping ==
    /\ last.op = "select_daily" =>
          LET eligible == {st \in SeqToSet(Stories(Persisted, last.a)) :
                             Eligible(st, TodayStart(now))}
          IN  /\ UNION {SeqToSet(last.unit[g]) : g \in DOMAIN last.unit}
                    = {st.story_id : st \in eligible}
              /\ \A g \in DOMAIN last.unit : last.unit[g] # <<>>
              /\ \A s1 \in eligible, s2 \in eligible :
                    /\ (GroupOf(last.unit, s1.story_id) = GroupOf(last.unit, s2.story_id))
                           <=> (DateKey(s1.taken_at) = DateKey(s2.taken_at))
                    /\ DateKey(s1.taken_at) < DateKey(s2.taken_at) =>
                           GroupOf(last.unit, s1.story_id) < GroupOf(last.unit, s2.story_id)
    /\ last.op = "post_day" =>
          /\ \A j \in DOMAIN last.unit, k \in DOMAIN last.unit :
                 j < k => RecordOf(Persisted, last.a, last.unit[j]).taken_at
                              <= RecordOf(Persisted, last.a, last.unit[k]).taken_at
          /\ \A p \in DOMAIN last.ups, q \in DOMAIN last.ups :
                 p < q =>
                    \/ /\ last.ups[p].path.s = last.ups[q].path.s
                       /\ last.ups[p].path.i < last.ups[q].path.i
                    \/ \E j \in DOMAIN last.unit, k \in DOMAIN last.unit :
                          /\ j < k
                          /\ last.unit[j] = last.ups[p].path.s
                          /\ last.unit[k] = last.ups[q].path.s

\* o1 (taken at 300) and o2 (taken at 100) fall on the same date and went out
\* as one unit of work, the item of o2 first
C27_Witness ==
    /\ last.op = "post_day" /\ last.unit = <<"o2", "o1">> /\ last.ret
    /\ Len(last.ups) = 2
    /\ last.ups[1].path.s = "o2" /\ last.ups[2].path.s = "o1"

\* Whether the posts of `username` in the thread t form one chain: the first is
\* the anchor and replies to nothing, every later one is a story post replying
\* to the post of the account created just before it
Linear(t, username) ==
    \A k \in DOMAIN t :
        t[k].a = username =>
            LET earlier == {j \in 1..(k - 1) : t[j].a = username}
            IN  IF earlier = {}
                THEN t[k].text.kind = "anchor" /\ t[k].reply_to = None_
                ELSE /\ t[k].text.kind = "story"
                     /\ t[k].reply_to = CHOOSE j \in earlier : \A i \in earlier : i <= j

\* The thread tail a unit of work starts from: the anchor it has just created,
\* else last_tweet_id of the ledger, else the anchor of the ledger
TailBefore(d, obs, t, username) ==
    IF obs.made # <<>> /\ t[obs.made[1]].text.kind = "anchor" THEN obs.made[1]
    ELSE IF Account(d, username).last_tweet_id > 0 THEN Account(d, username).last_tweet_id
    ELSE Account(d, username).anchor_tweet_id

C29_FetchFailureAborts ==
    [][(last'.op = "archive" /\ ~last'.ret /\ ~last'.dead) =>
          /\ last'.n = 0 /\ last'.tried = <<>>
          /\ last'.dls = <<>> /\ last'.gone = {} /\ cache' = cache
          /\ \A username \in Usernames :
                 Stories(PersistedNext, username) = Stories(Persisted, username)
          /\ ~(pc'.phase = "archive" /\ pc'.i = pc.i)]_vars

\* The fetch for account a failed while a staged file of its posted story p1
\* was there for the sweep to evict
C29_Witness ==
    /\ last.op = "archive" /\ last.a = A /\ ~last.ret /\ last.n = 0
    /\ TweetIdsOf(Persisted, A, "p1") # <<>>
    /\ Img(A, "p1", 0) \in cache

\* Stories of the account that have staged files but no record
CacheOnly(d, c, username) ==
    {f.s : f \in {g \in c : g.a = username}} \ get_archived_story_ids(d, username)

\* C30: zero-media stories stay unknown.  An archive pass that has fetched the
\* story z1, from which no media descriptor is extracted, hands it to
\* archive_story, which downloads nothing, inserts no record and returns
\* False (the pass counts nothing for it: it returns 0 when no staged story
\* is there for the sweep to backfill); z1 is then absent from
\* get_archived_story_ids, so that every later pass that fetches it evaluates
\* it again.
C30_ZeroMediaUnknown ==
    [][(last'.op = "archive" /\ last'.ret /\ ~last'.dead
           /\ "z1" \in SeqToSet(last'.unit)) =>
          /\ "z1" \notin get_archived_story_ids(Persisted, last'.a)
          /\ "z1" \in SeqToSet(last'.tried)
          /\ \A k \in DOMAIN last'.dls : last'.dls[k].id.s # "z1"
          /\ (last'.unit = <<"z1">> /\ CacheOnly(Persisted, cache, last'.a) = {})
                => last'.n = 0
          /\ "z1" \notin get_archived_story_ids(PersistedNext, last'.a)
          /\ Stories(PersistedNext, last'.a) = Stories(Persisted, last'.a)]_vars

\* The invocation of the day before has run its archive passes, and a pass of
\* today's invocation has fetched z1 and evaluated it
C30_Witness ==
    /\ last.op = "archive" /\ last.a = A /\ last.ret /\ ~last.dead
    /\ last.unit = <<"z1">> /\ last.tried = <<"z1">> /\ last.n = 0
    /\ now > Now0 /\ Account(Persisted, B).last_check = Now0

\* archive_story called on fetched stories of two items, day after day
NextMixed ==
    \/ CallArchiveMixed
    \/ Tick

InitMixed == InitFrom(Scenarios)

SpecMixed == InitMixed /\ [][NextMixed]_vars

\* C31: index alignment under partial download.  When archive_story has
\* archived the story m1 (a video, then an image), the media_types it hands to
\* add_story beside the full media_urls holds, at every index i it has, the
\* type of the item at media_urls[i], also when an item failed to download.
C31_IndexAlignment ==
    [][(last'.op = "archive_mixed" /\ last'.ret) =>
          LET media_list == MixedPayload("m1").media
              dl == [i \in 1..MaxItems |->
                        \A k \in DOMAIN last'.dls :
                            last'.dls[k] # [id |-> MediaId(last'.a, "m1", i - 1), ok |-> FALSE]]
              staged == StageMedia(Fresh, last'.a, "m1", media_list, 1, dl,
                                   [paths |-> <<>>, types |-> <<>>]).ret
          IN  \A i \in DOMAIN staged.types : staged.types[i] = media_list[i].type]_vars

\* The records of a story in a ledger document
RecordsOf(d, username, story_id) ==
    {k \in DOMAIN Stories(d, username) : Stories(d, username)[k].story_id = story_id}

\* C32: crash recovery by reconciliation.  When the staging area holds files
\* of a story of the account that has no record (an earlier invocation staged
\* them and ended before the insert was persisted), a completed archive pass of
\* the account leaves exactly one record of that story, and it is pending,
\* whether the fetch returned the story or not.
C32_CrashRecovery ==
    [][(last'.op = "archive" /\ last'.ret /\ ~last'.dead) =>
          \A story_id \in CacheOnly(Persisted, cache, last'.a) :
              /\ Cardinality(RecordsOf(PersistedNext, last'.a, story_id)) = 1
              /\ TweetIdsOf(PersistedNext, last'.a, story_id) = <<>>]_vars

Responses == {"ok", "forbidden", "unauthorized", "server_error"}
AuthErrors == {"forbidden", "unauthorized"}

max_retries == 3
max_attempts == 3

\* TwitterAPI.upload_media, the loop `for attempt in range(max_retries)`:
\* responses[attempt + 1] is what attempt meets; the result is whether a media
\* id is returned and the number of requests made.
RECURSIVE UploadMediaLoop(_, _)
UploadMediaLoop(responses, attempt) ==
    LET r == responses[attempt + 1]
    IN  IF r = "ok" THEN [ok |-> TRUE, attempts |-> attempt + 1]
        ELSE IF r = "forbidden" THEN [ok |-> FALSE, attempts |-> attempt + 1]
        ELSE IF attempt < max_retries - 1 THEN UploadMediaLoop(responses, attempt + 1)
        ELSE [ok |-> FALSE, attempts |-> attempt + 1]

\* TwitterAPI.post_tweet, the loop `for attempt in range(max_attempts)`
RECURSIVE PostTweetLoop(_, _)
PostTweetLoop(responses, attempt) ==
    LET r == responses[attempt + 1]
    IN  IF r = "ok" THEN [ok |-> TRUE, attempts |-> attempt + 1]
        ELSE IF attempt < max_attempts - 1 THEN PostTweetLoop(responses, attempt + 1)
        ELSE [ok |-> FALSE, attempts |-> attempt + 1]

\* The observation of one port call: tried is what the successive requests
\* would meet, n the number of requests made, ret whether an id was returned
PortObs(op, responses, r) ==
    [NoObs EXCEPT !.op = op, !.tried = responses, !.n = r.attempts, !.ret = r.ok]

\* TwitterAPI.upload_media(media_path) called on an existing file
CallUploadMedia ==
    /\ pc.phase = "idle"
    /\ \E responses \in [1..max_retries -> Responses] :
           last' = PortObs("upload_media", responses, UploadMediaLoop(responses, 0))
    /\ UNCHANGED <<now, disk, cache, tweets, data, dflt, pc, queue>>

\* TwitterAPI.post_tweet(text, media_ids, reply_to_id)
CallPostTweet ==
    /\ pc.phase = "idle"
    /\ \E responses \in [1..max_attempts -> Responses] :
           last' = PortObs("post_tweet", responses, PostTweetLoop(responses, 0))
    /\ UNCHANGED <<now, disk, cache, tweets, data, dflt, pc, queue>>

NextPort ==
    \/ CallUploadMedia
    \/ CallPostTweet

InitPort == InitFrom({EmptyScenario})

SpecPort == InitPort /\ [][NextPort]_vars

\* C34: auth failures are not retried.  When the first request of an
\* upload_media or post_tweet call fails with 403 Forbidden or 401
\* Unauthorized, exactly one request is made and the call returns failure; no
\* call makes more than 3 requests.
C34_AuthNotRetried ==
    last.op \in {"upload_media", "post_tweet"} =>
        /\ last.n <= 3
        /\ last.tried[1] \in AuthErrors => (last.n = 1 /\ ~last.ret)

\* No account of the document holds two records with the same story_id
NoDuplicates(d) ==
    \A username \in Usernames :
        \A i, j \in DOMAIN Stories(d, username) :
            Stories(d, username)[i].story_id = Stories(d, username)[j].story_id => i = j

OtherPostStory ==
    /\ pc.phase \in {"select", "post"}
    /\ \E username \in Usernames :
       \E k \in DOMAIN StoriesToPost(Fresh.data, username, now) :
       LET story_id == StoriesToPost(Fresh.data, username, now)[k].story_id
           r == post_story(Fresh, username, story_id, Dl({})[story_id], Up({}), Tw({}))
       IN  /\ disk' = r.w.disk
           /\ cache' = r.w.cache
           /\ tweets' = r.w.tweets
           /\ last' = Obs("other_post", username, <<story_id>>, r.w, r.ret,
                          IF r.ret THEN 1 ELSE 0, <<>>)
    /\ UNCHANGED <<now, data, dflt, pc, queue>>

NextRace ==
    \/ Start("post")
    \/ PostBegin
    \/ PostNext
    \/ OtherPostStory

InitRace == InitFrom({BoundaryScenario, OrderScenario, PostedScenario})

SpecRace == InitRace /\ [][NextRace]_vars

\* The posts created for a story
PostsOf(t, story_id) ==
    {k \in DOMAIN t : t[k].text.kind = "story" /\ story_id \in t[k].text.unit}

\* C36: concurrent invocations race on the ledger.  Every save writes the whole
\* in-memory document of the saving invocation: after a successful post_story
\* of the running invocation the file holds, for the story posted, the posts
\* just made, and for every other story the tweet_ids the running invocation
\* had in memory, whatever the other invocation has persisted meanwhile.
C36_ConcurrentRace ==
    [][(last'.op = "post_story" /\ last'.ret /\ last'.made # <<>>) =>
          \A username \in Usernames : \A k \in DOMAIN Stories(data, username) :
              LET st == Stories(data, username)[k]
              IN  TweetIdsOf(PersistedNext, username, st.story_id) =
                     IF username = last'.a /\ st.story_id = last'.unit[1]
                     THEN StoryMade(last', tweets')
                     ELSE st.tweet_ids]_vars

\* Both invocations have posted s1: the other one as post 2, whose tweet_ids
\* on file the running one has then overwritten with its own post 4
C36_Witness ==
    /\ last.op = "post_story" /\ last.unit = <<"s1">> /\ last.ret
    /\ PostsOf(tweets, "s1") = {2, 4}
    /\ TweetIdsOf(Persisted, A, "s1") = <<4>>

\* The anchor posts created for an account
AnchorsOf(t, username) ==
    {k \in DOMAIN t : t[k].text.kind = "anchor" /\ t[k].a = username}

\* The handler call has asked for the anchor post and post_tweet has failed
AnchorFailed(obs) ==
    obs.calls # <<>> /\ obs.calls[1].unit = {} /\ ~obs.calls[1].ok

\* C37: single anchor per account.  Over the post passes of successive
\* invocations, none of them killed, each account has at most one anchor post; a
\* failed anchor creation leaves anchor_tweet_id and last_tweet_id as they
\* were; and an anchor_tweet_id that is set is never changed.
C37_SingleAnchor ==
    [][\A username \in Usernames :
          /\ Cardinality(AnchorsOf(tweets', username)) <= 1
          /\ (AnchorFailed(last') /\ last'.a = username) =>
                /\ get_anchor_tweet_id(PersistedNext, username)
                      = get_anchor_tweet_id(Persisted, username)
                /\ get_last_tweet_id(PersistedNext, username)
                      = get_last_tweet_id(Persisted, username)
                /\ last'.made = <<>>
          /\ get_anchor_tweet_id(Persisted, username) > 0 =>
                get_anchor_tweet_id(PersistedNext, username)
                   = get_anchor_tweet_id(Persisted, username)]_vars

(***************************************************************************)
(* Post passes under fairness: invocations keep being started, the days    *)
(* go by, a pass that is running goes on, and again and again a unit of    *)
(* work meets ports that all succeed.                                      *)
(***************************************************************************)
NextLive ==
    \/ Start("post")
    \/ PostBegin
    \/ PostNext
    \/ Tick

InitLive == InitFrom(Scenarios)

\* PostBegin is enabled exactly when the pass is at the selection of an
\* account, and PostNext when it is at a unit of work.  A step that leaves a
\* select observation is a PostBegin step, one that leaves a post_story
\* observation a PostNext step, and one that leaves a clean post_story
\* observation a unit of work during which no port call failed.
AtSelect == pc.phase = "select" /\ pc.mode \in {"run", "post"}
AtUnit == pc.phase = "post" /\ pc.mode \in {"run", "post"}
Selected == last'.op = "select"
UnitDone == last'.op = "post_story"
UnitDoneClean == last'.op = "post_story" /\ Clean(last')

\* Invocations keep being started and the days keep going by (Tick is enabled
\* between invocations only, hence strong fairness); a running pass goes on
\* (weak fairness of PostBegin and PostNext); and again and again the ports
\* succeed (strong fairness of the clean units of work).  The fairness of
\* PostBegin and PostNext is spelled out with their enabling conditions.
SpecLive ==
    /\ InitLive /\ [][NextLive]_vars
    /\ WF_vars(Start("post")) /\ SF_vars(Tick)
    /\ (<>[]AtSelect => []<><<Selected>>_vars)
    /\ (<>[]AtUnit => []<><<UnitDone>>_vars)
    /\ ([]<>AtUnit => []<><<UnitDoneClean>>_vars)

\* The story has a record with a valid taken_at and no tweet_ids
PendingOnFile(username, story_id) ==
    /\ Recorded(Persisted, username, story_id)
    /\ RecordOf(Persisted, username, story_id).taken_at # None_
    /\ TweetIdsOf(Persisted, username, story_id) = <<>>

Attached(obs, p) ==
    /\ obs.ups[p].ok
    /\ \E m \in DOMAIN StoryCalls(obs) :
           BatchOfCall(obs, m) = UploadBatchOf(p) /\ StoryCalls(obs)[m].ok

\* C39: posted means fully posted.  After a unit of work of either policy, a
\* story of the unit has tweet_ids only if every item prepared for the unit
\* was attached to a post that was created, no batch having been passed over
\* for want of an upload or left without a post by a failed post_tweet.
C39_PostedMeansFullyPosted ==
    (last.op \in {"post_story", "post_day"} /\ ~last.dead) =>
        \A story_id \in SeqToSet(last.unit) :
            TweetIdsOf(Persisted, last.a, story_id) # <<>> =>
                /\ \A p \in DOMAIN last.ups : Attached(last, p)
                /\ AllBatchesPosted(last)

\* Invocations of main() that archive and then post by the immediate policy,
\* day after day
NextBackfill ==
    \/ Start("run")
    \/ ArchiveAccount
    \/ PostBegin
    \/ PostNext
    \/ Tick

InitBackfill == InitFrom({EmptyScenario, BoundaryScenario})

AtArchive == pc.phase = "archive"
Archived == last'.op = "archive"

\* The fairness of SpecLive, and a running archive pass goes on
SpecBackfill ==
    /\ InitBackfill /\ [][NextBackfill]_vars
    /\ WF_vars(Start("run")) /\ SF_vars(Tick)
    /\ (<>[]AtArchive => []<><<Archived>>_vars)
    /\ (<>[]AtSelect => []<><<Selected>>_vars)
    /\ (<>[]AtUnit => []<><<UnitDone>>_vars)
    /\ ([]<>AtUnit => []<><<UnitDoneClean>>_vars)

\* A completed archive pass of the account has just run its sweep over the
\* staged files of a story that the fetch did not return and that is not
\* posted: the story is one the sweep backfills, or one it found pending
Swept(username, story_id) ==
    /\ last.op = "archive" /\ last.ret /\ ~last.dead /\ last.a = username
    /\ story_id \notin SeqToSet(last.unit)
    /\ \E f \in cache : f.a = username /\ f.s = story_id

\* C40: backfilled stories are postable.  A story whose staged files the sweep
\* of a completed archive pass has gone over (its files are still staged),
\* with a day still to go by so that it becomes eligible, is posted by a later
\* post pass: its record gets non-empty tweet_ids.
C40_BackfilledPostable ==
    \A story_id \in FetchedIds :
        (Swept(A, story_id) /\ now < Now0 + MaxDays * DaySeconds)
            ~> (TweetIdsOf(Persisted, A, story_id) # <<>>)


====
